---- MODULE Spec2Model ----
(***************************************************************************)
(* Client-side job tracking of the test-specification generator.           *)
(*                                                                         *)
(* Two variants of the main page script exist in the repository:           *)
(*   "auto" : src/unnamed/part_000  (downloads the result on completion,   *)
(*            ignores non-success status responses and poll exceptions)    *)
(*   "hist" : src/unnamed/part_001, lines 1-284 (shows a link to the       *)
(*            history page on completion, treats poll errors as fatal)     *)
(* The variant is fixed in the initial state.  Every step of the model is  *)
(* one run-to-completion piece of the event loop: a click handler up to    *)
(* its first await, a timer callback, or the continuation that runs when   *)
(* an awaited request resolves.                                            *)
(***************************************************************************)
EXTENDS Integers, FiniteSets, Sequences, TLC

\* ------------------------------------------------------------------ bounds
\* Jobs the backend accepts in one run, and requests of all kinds that may be
\* outstanding at once.
MaxJobs == 3
MaxInFlight == 2

JobIds == 1..MaxJobs
NoJob == 0
NoTimer == 0

\* ------------------------------------------------------------ value domains
Variants == {"auto", "hist"}
Modes == {"normal", "diff"}

\* Progress values the backend reports; the client does not clamp them.
ProgressValues == {40, 100}
Stages == {"structuring", "other"}
Messages == {"m1"}
NoSnap == [stage |-> "", message |-> "", progress |-> 0]
Snapshots == [stage : Stages, message : Messages, progress : ProgressValues]

HttpErrors == {404, 500}

\* Bodies a non-success answer to the POST may carry (by number).
ErrorBodies == {1, 2}
RuntimeStatuses == {"Running", "Completed", "Failed"}

\* A resolved status request: res.ok with a parsed body, a non-success HTTP
\* status, or a rejected fetch / json() promise.
OkResponses ==
    [outcome : {"ok"}, code : {200}, runtimeStatus : RuntimeStatuses,
     customStatus : Snapshots \cup {NoSnap}]
NonOkResponses ==
    [outcome : {"nonok"}, code : HttpErrors, runtimeStatus : {""},
     customStatus : {NoSnap}]
ThrowResponse ==
    [outcome |-> "throw", code |-> 0, runtimeStatus |-> "", customStatus |-> NoSnap]
NoResp ==
    [outcome |-> "", code |-> 0, runtimeStatus |-> "", customStatus |-> NoSnap]
StatusResponses == OkResponses \cup NonOkResponses \cup {ThrowResponse}

\* A server-error text that leaves the status code out.
ServerErrorMsgNoCode(code) == <<"server-error", 0>>

\* Status texts (the Japanese literals of the source, by tag), each paired
\* with the number interpolated into it (0 when there is none).
NoMsg == <<"", 0>>
MsgSelectDesign == <<"select-design", 0>>            \* part_000:48
MsgSelectNew == <<"select-new", 0>>                  \* part_000:62
MsgSelectOldStructured == <<"select-old-md", 0>>     \* part_000:66
MsgSelectOldTestSpec == <<"select-old-spec", 0>>     \* part_000:70
MsgGenerating == <<"generating", 0>>                 \* part_000:84
MsgGeneratingDiff == <<"generating-diff", 0>>        \* part_000:84
MsgCommError == <<"comm-error", 0>>                  \* part_000:120
MsgCompleted == <<"completed", 0>>                   \* part_000:155
MsgCompletedLink == <<"completed-link", 0>>          \* part_001:216
MsgFailed == <<"failed", 0>>                         \* part_000:163
MsgDownloadFailed == <<"download-failed", 0>>        \* part_000:178
MsgServerErrorThrown == <<"server-error-thrown", 0>> \* part_001:236
ServerErrorMsg(code) == <<"server-error", code>>   \* part_001:198

\* An upload error text that does not carry the response body.
MsgUploadErrorNoBody(body) == <<"error-body", 0>>

\* `エラー: ${errorText}`, the body identified by its number   part_000:104
MsgUploadError(body) == <<"error-body", body>>

StartingText == <<"starting", 0>>             \* part_000:87

VARIABLES
    variant,              \* which script the page runs
    pollingInterval,      \* let pollingInterval: NoTimer or a timer handle
    currentJobId,         \* let currentJobId: NoJob or a job id
    timers,               \* live interval timers: [h, job]
    nextTimer,            \* handles handed out by setInterval so far
    nextJob,              \* instance ids handed out by the backend so far
    uploadBtnDisabled,    \* uploadBtn.disabled
    historyLinkEnabled,   \* historyLink.style.pointerEvents = "auto"
    progressDisplay,      \* progressContainer.style.display
    status,               \* status.textContent / innerHTML
    progressBarWidth,     \* progressBar.style.width, in percent
    progressText,         \* progressText.textContent: <<label, percent>>
    uploadsInFlight,      \* number of POSTs whose fetch has not resolved
    textsInFlight,        \* non-success POSTs awaiting startRes.text()
    statusInFlight,       \* per job: status GETs not yet resolved
    downloadsInFlight,    \* per job: download GETs not yet resolved
    script,               \* status responses the backend is scripted to give
    answered,             \* per job: a status response of it has been handled
    histKind,             \* which history page script runs, or "closed"
    allResults,           \* let allResults: the history entries held in memory
    currentPage,          \* let currentPage
    tbody,                \* #historyBody as last rendered
    pagination,           \* #pagination as last rendered: its controls
    listInFlight,         \* the GET /list-results of loadHistory is pending
    deletesInFlight,      \* per entry id: DELETE requests not yet resolved
    histDownloadsInFlight, \* history-page download GETs not yet resolved
    fnCall,               \* a helper function and the argument it is called with
    fnResult,             \* what that call returned, once it has returned
    histEvent,            \* the history-page event handled by the last step
    lastEvent             \* the event handled by the last step

uiVars == <<uploadBtnDisabled, historyLinkEnabled, progressDisplay, status,
            progressBarWidth, progressText>>
timerVars == <<pollingInterval, timers, nextTimer>>
netVars == <<uploadsInFlight, textsInFlight, statusInFlight, downloadsInFlight>>
envVars == <<variant, script>>
mainVars == <<envVars, currentJobId, nextJob, timerVars, uiVars, netVars,
              answered, lastEvent>>
histVars == <<histKind, allResults, currentPage, tbody, pagination,
              listInFlight, deletesInFlight, histDownloadsInFlight, histEvent>>
fnVars == <<fnCall, fnResult>>
vars == <<mainVars, histVars, fnVars>>

\* Requests sent and not yet resolved.
RECURSIVE sumUpTo(_, _)
sumUpTo(f, n) == IF n = 0 THEN 0 ELSE f[n] + sumUpTo(f, n - 1)

outstanding ==
    uploadsInFlight + textsInFlight
    + sumUpTo(statusInFlight, MaxJobs) + sumUpTo(downloadsInFlight, MaxJobs)

NoSel == [files |-> 0, newExcelFiles |-> 0, oldStructuredMd |-> 0,
          oldTestSpecMd |-> 0]

\* What one call of downloadResult did: the status text it wrote (NoMsg when
\* it wrote none), whether an exception is leaving it, the object URLs it
\* created and revoked, and whether it triggered the save.
DownloadRun(message, thrown, created, revoked, saved) ==
    [message |-> message, thrown |-> thrown, created |-> created,
     revoked |-> revoked, saved |-> saved]
NoDownload == DownloadRun(NoMsg, FALSE, 0, 0, FALSE)

Event(kind, job, resp, armed) ==
    [kind |-> kind, job |-> job, resp |-> resp, armed |-> armed,
     first |-> FALSE, mode |-> "", sel |-> NoSel, endpoint |-> "",
     dl |-> NoDownload]

\* ------------------------------------------------------------------ helpers

\* clearInterval(h)
clearInterval(ts, h) == {t \in ts : t.h # h}

\* stopPolling that resets pollingInterval without calling clearInterval.
stopPollingNoClear(ts, pi) == ts

\* stopPolling(): the timers left live
stopPolling(ts, pi) == IF pi # NoTimer THEN clearInterval(ts, pi) ELSE ts

\* startPolling that arms the new timer without cancelling the previous one.
startPollingNoCancel(ts, pi, h, job) == ts \cup {[h |-> h, job |-> job]}

\* startPolling(instanceId): the timers live after stopPolling(); setInterval()
startPolling(ts, pi, h, job) == stopPolling(ts, pi) \cup {[h |-> h, job |-> job]}

\* stageMessages[stage] || message.  stageMessages is an object literal: a
\* lookup finds its five own keys, whose labels are non-empty, and also the
\* members it inherits from Object.prototype, which are truthy and are
\* rendered by the template literal as their string form; every other lookup
\* is undefined and gives way to the message.
stageLabel(stage, message) ==
    CASE stage = "structuring" -> "label-structuring"
      [] stage = "diff" -> "label-diff"
      [] stage = "perspectives" -> "label-perspectives"
      [] stage = "testspec" -> "label-testspec"
      [] stage = "converting" -> "label-converting"
      [] stage = "constructor" -> "function Object() { [native code] }"
      [] stage = "toString" -> "function toString() { [native code] }"
      [] stage = "__proto__" -> "[object Object]"
      [] OTHER -> message

\* updateProgress(data): the text rendered
renderText(cs) == <<stageLabel(cs.stage, cs.message), cs.progress>>

\* updateProgress(data): the bar width set
renderWidth(cs) == cs.progress

\* historyLink exists only on the history-oriented page
enableHistoryLink == IF variant = "hist" THEN TRUE ELSE historyLinkEnabled
disableHistoryLink == IF variant = "hist" THEN FALSE ELSE historyLinkEnabled

\* ------------------------------------------------- history page: functions
\* Entries the backend may list, and the page size of the paginated scripts.
MaxEntries == 6
\* Longest list the backend returns oldest first.
MaxUnsorted == 3
ITEMS_PER_PAGE == 5
EntryIds == 1..MaxEntries

\* The history page scripts: "seq" is src/unnamed/part_002 (sorted by
\* seq_number, paginated), "plain" is src/frontend/history.js (backend order,
\* paginated), "flat" is src/unnamed/part_001 from line 286 (sorted by
\* start_time, one table).  "closed": the main page is the one open.
HistKinds == {"seq", "plain", "flat"}
isPaged(kind) == kind \in {"seq", "plain"}

\* One listed result; later jobs have the larger seq_number and start_time.
Entry(i) == [instanceId |-> i, seq_number |-> i, start_time |-> i]

\* Answers of GET /list-results: n entries, oldest first or newest first.
ascending(n) == [k \in 1..n |-> Entry(k)]
descending(n) == [k \in 1..n |-> Entry(n + 1 - k)]
\* `a.start_time || ''`: an entry without start_time sorts as the empty
\* string, below every timestamp.
NoStartTime == 0
missingStart == <<[Entry(2) EXCEPT !.start_time = NoStartTime], Entry(1)>>
BackendLists ==
    {ascending(n) : n \in 0..MaxUnsorted} \cup {descending(n) : n \in 0..MaxEntries}
    \cup {missingStart}

\* The key the script sorts by.
sortKey(e, kind) == IF kind = "flat" THEN e.start_time ELSE e.seq_number

\* Array.prototype.sort with a comparator that puts the larger key first
\* (stable: entries of equal key keep their order).
insertDesc(sorted, e, kind) ==
    LET p == Cardinality({k \in 1..Len(sorted) :
                             sortKey(sorted[k], kind) >= sortKey(e, kind)})
    IN SubSeq(sorted, 1, p) \o <<e>> \o SubSeq(sorted, p + 1, Len(sorted))

RECURSIVE sortDesc(_, _)
sortDesc(list, kind) ==
    IF list = <<>> THEN <<>>
    ELSE insertDesc(sortDesc(SubSeq(list, 1, Len(list) - 1), kind),
                    list[Len(list)], kind)

\* loadHistory: the collection kept from the parsed answer.
afterLoad(list, kind) == IF kind = "plain" THEN list ELSE sortDesc(list, kind)

\* Math.ceil(allResults.length / ITEMS_PER_PAGE)
totalPagesOf(list) == (Len(list) + ITEMS_PER_PAGE - 1) \div ITEMS_PER_PAGE

\* A slice that takes the element at index end as well.
sliceInclusive(list, start, end) ==
    SubSeq(list, start + 1, IF end + 1 < Len(list) THEN end + 1 ELSE Len(list))

\* allResults.slice(start, end)
slice(list, start, end) ==
    SubSeq(list, start + 1, IF end < Len(list) THEN end ELSE Len(list))

\* A removal that drops the entry at the position the id names.
removeAtPosition(list, id) ==
    [k \in 1..(Len(list) - (IF id \in 1..Len(list) THEN 1 ELSE 0)) |->
        IF k < id THEN list[k] ELSE list[k + 1]]

\* allResults.filter(item => item.instanceId !== instanceId)
removeId(list, id) == SelectSeq(list, LAMBDA e : e.instanceId # id)

\* A clamp that is applied only when the page is more than one too far.
clampPageLate(page, list) ==
    IF page > totalPagesOf(list) + 1 /\ totalPagesOf(list) > 0
    THEN totalPagesOf(list) ELSE page

\* deleteItem: if (currentPage > totalPages && totalPages > 0) currentPage = totalPages
clampPage(page, list) ==
    IF page > totalPagesOf(list) /\ totalPagesOf(list) > 0
    THEN totalPagesOf(list) ELSE page

\* The controls of #pagination.
Control(kind, page, disabled, active) ==
    [kind |-> kind, page |-> page, disabled |-> disabled, active |-> active]

\* renderPagination: the loop over the page numbers.
RECURSIVE pageButtons(_, _, _)
pageButtons(i, totalPages, page) ==
    IF i > totalPages THEN <<>>
    ELSE (IF i = 1 \/ i = totalPages \/ (i - page \in {-1, 0, 1})
          THEN <<Control("NUM", i, FALSE, i = page)>>
          ELSE IF i = page - 2 \/ i = page + 2
          THEN <<Control("ELLIPSIS", 0, TRUE, FALSE)>>
          ELSE <<>>)
         \o pageButtons(i + 1, totalPages, page)

\* A renderPagination that disables PREV on the last page and NEXT on the first.
renderPaginationSwapped(totalPages, page) ==
    IF totalPages <= 1 THEN <<>>
    ELSE <<Control("PREV", page - 1, page = totalPages, FALSE)>>
         \o pageButtons(1, totalPages, page)
         \o <<Control("NEXT", page + 1, page = 1, FALSE)>>

\* renderPagination(totalPages)
renderPagination(totalPages, page) ==
    IF totalPages <= 1 THEN <<>>
    ELSE <<Control("PREV", page - 1, page = 1, FALSE)>>
         \o pageButtons(1, totalPages, page)
         \o <<Control("NEXT", page + 1, page = totalPages, FALSE)>>

\* The table body: its kind and the instanceIds of the rows it shows.
Body(kind, rows) == [kind |-> kind, rows |-> rows]
rowIds(list) == [k \in 1..Len(list) |-> list[k].instanceId]

\* A renderPage without the branch for the empty collection.
renderBodyNoEmptyRow(list, page, kind) ==
    IF isPaged(kind)
    THEN Body("rows", rowIds(slice(list, (page - 1) * ITEMS_PER_PAGE,
                                   (page - 1) * ITEMS_PER_PAGE + ITEMS_PER_PAGE)))
    ELSE Body("rows", rowIds(list))

\* renderPage(): what it writes to #historyBody
renderBody(list, page, kind) ==
    IF Len(list) = 0 THEN Body("empty", <<>>)
    ELSE IF isPaged(kind)
    THEN Body("rows", rowIds(slice(list, (page - 1) * ITEMS_PER_PAGE,
                                   (page - 1) * ITEMS_PER_PAGE + ITEMS_PER_PAGE)))
    ELSE Body("rows", rowIds(list))

\* renderPage(): what it writes to #pagination
renderControls(list, page, kind) ==
    IF Len(list) = 0 \/ ~isPaged(kind) THEN <<>>
    ELSE renderPagination(totalPagesOf(list), page)

HistEvent(kind, id, outcome, alert, rendered) ==
    [kind |-> kind, id |-> id, outcome |-> outcome, alert |-> alert,
     rendered |-> rendered, from |-> 0, removed |-> 0, row |-> 0,
     uncaught |-> FALSE]

\* The history page is not open.
\* No helper function is being called on its own.
NotReturned == [done |-> FALSE, value |-> <<>>]
Returned(value) == [done |-> TRUE, value |-> value]
FunctionsIdle == fnCall = [fn |-> "none", arg |-> <<>>] /\ fnResult = NotReturned

HistoryClosed ==
    /\ histKind = "closed"
    /\ allResults = <<>>
    /\ currentPage = 1
    /\ tbody = Body("initial", <<>>)
    /\ pagination = <<>>
    /\ listInFlight = FALSE
    /\ deletesInFlight = [i \in EntryIds |-> 0]
    /\ histDownloadsInFlight = 0
    /\ histEvent = HistEvent("none", 0, "", FALSE, FALSE)

\* -------------------------------------------------------------------- Init
Init ==
    /\ variant \in Variants
    /\ pollingInterval = NoTimer
    /\ currentJobId = NoJob
    /\ timers = {}
    /\ nextTimer = 0
    /\ nextJob = 0
    /\ uploadBtnDisabled = FALSE
    /\ historyLinkEnabled = TRUE
    /\ progressDisplay = "none"
    /\ status = NoMsg
    /\ progressBarWidth = 0
    /\ progressText = <<"", 0>>
    /\ uploadsInFlight = 0
    /\ textsInFlight = 0
    /\ statusInFlight = [j \in JobIds |-> 0]
    /\ downloadsInFlight = [j \in JobIds |-> 0]
    /\ answered = [j \in JobIds |-> FALSE]
    /\ lastEvent = Event("init", NoJob, NoResp, FALSE)
    /\ HistoryClosed
    /\ FunctionsIdle
    /\ script = <<>>

\* ------------------------------------------------------ upload submitter

\* The number of files chosen in each file input the mode reads: #fileInput
\* in normal mode; #newExcelFiles, #oldStructuredMd and #oldTestSpecMd in diff
\* mode (the inputs of the other mode are not looked at).
FileCounts == {0, 1}
Selections(mode) ==
    IF mode = "normal"
    THEN [files : FileCounts, newExcelFiles : {0},
          oldStructuredMd : {0}, oldTestSpecMd : {0}]
    ELSE [files : {0}, newExcelFiles : FileCounts,
          oldStructuredMd : FileCounts, oldTestSpecMd : FileCounts]

\* A diff-mode validation that looks at the old test specification first.
validationMessageSpecFirst(mode, sel) ==
    IF mode = "normal"
    THEN IF sel.files = 0 THEN MsgSelectDesign ELSE NoMsg
    ELSE IF sel.oldTestSpecMd = 0 THEN MsgSelectOldTestSpec
         ELSE IF sel.oldStructuredMd = 0 THEN MsgSelectOldStructured
         ELSE IF sel.newExcelFiles = 0 THEN MsgSelectNew
         ELSE NoMsg

\* The validation of the click handler: the message of the first missing
\* slot, or NoMsg when the selection may be submitted.
validationMessage(mode, sel) ==
    IF mode = "normal"
    THEN IF sel.files = 0 THEN MsgSelectDesign ELSE NoMsg
    ELSE IF sel.newExcelFiles = 0 THEN MsgSelectNew
         ELSE IF sel.oldStructuredMd = 0 THEN MsgSelectOldStructured
         ELSE IF sel.oldTestSpecMd = 0 THEN MsgSelectOldTestSpec
         ELSE NoMsg

\* uploadBtn click, validation fails: only the status text changes.
ClickInvalid(mode, sel) ==
    /\ ~uploadBtnDisabled
    /\ validationMessage(mode, sel) # NoMsg
    /\ status' = validationMessage(mode, sel)
    /\ lastEvent' = [Event("invalid", NoJob, NoResp, FALSE)
                        EXCEPT !.mode = mode, !.sel = sel]
    /\ UNCHANGED <<histVars, fnVars, envVars, answered, currentJobId, nextJob, timerVars, netVars,
                   uploadBtnDisabled, historyLinkEnabled, progressDisplay,
                   progressBarWidth, progressText>>

\* const endpoint = mode === "normal" ? .../upload : .../upload_diff
endpoint(mode) == IF mode = "normal" THEN "/upload" ELSE "/upload_diff"

\* uploadBtn click, validation passes: the handler up to `await fetch(endpoint)`.
ClickValid(mode, sel) ==
    /\ ~uploadBtnDisabled
    /\ validationMessage(mode, sel) = NoMsg
    /\ outstanding < MaxInFlight
    /\ uploadBtnDisabled' = TRUE
    /\ historyLinkEnabled' = disableHistoryLink
    /\ status' = IF mode = "diff" THEN MsgGeneratingDiff ELSE MsgGenerating
    /\ progressDisplay' = "block"
    /\ progressBarWidth' = 0
    /\ progressText' = StartingText
    /\ uploadsInFlight' = uploadsInFlight + 1
    /\ lastEvent' = [Event("click", NoJob, NoResp, FALSE)
                        EXCEPT !.mode = mode, !.sel = sel,
                               !.endpoint = endpoint(mode)]
    /\ UNCHANGED <<histVars, fnVars, envVars, answered, currentJobId, nextJob, timerVars, textsInFlight,
                   statusInFlight, downloadsInFlight>>

\* startPolling that arms the timer and leaves the first poll to the first tick.
noImmediatePoll(sif, id) == sif

\* startPolling(instanceId), last statement: pollStatus(instanceId) is called
\* at once and sends its status request.
immediatePoll(sif, id) == [sif EXCEPT ![id] = @ + 1]

\* The POST resolved with a success status and a JSON body carrying the id:
\* currentJobId = instanceId; startPolling(instanceId), which polls at once.
UploadOk ==
    /\ uploadsInFlight > 0
    /\ nextJob < MaxJobs
    /\ LET id == nextJob + 1
           h == nextTimer + 1
       IN /\ nextJob' = id
          /\ nextTimer' = h
          /\ currentJobId' = id
          /\ timers' = startPolling(timers, pollingInterval, h, id)
          /\ pollingInterval' = h
          /\ statusInFlight' = immediatePoll(statusInFlight, id)
          /\ lastEvent' = Event("uploadOk", id, NoResp, pollingInterval # NoTimer)
    /\ uploadsInFlight' = uploadsInFlight - 1
    /\ UNCHANGED <<histVars, fnVars, envVars, answered, uiVars, textsInFlight, downloadsInFlight>>

\* The POST resolved with a non-success status: the container is hidden and
\* the handler awaits startRes.text().
UploadNonOk ==
    /\ uploadsInFlight > 0
    /\ uploadsInFlight' = uploadsInFlight - 1
    /\ textsInFlight' = textsInFlight + 1
    /\ progressDisplay' = "none"
    /\ lastEvent' = Event("uploadNonOk", NoJob, NoResp, FALSE)
    /\ UNCHANGED <<histVars, fnVars, envVars, answered, currentJobId, nextJob, timerVars, statusInFlight,
                   downloadsInFlight, uploadBtnDisabled, historyLinkEnabled,
                   status, progressBarWidth, progressText>>

\* startRes.text() resolved: the body is shown and the controls re-enabled.
UploadErrorText(body) ==
    /\ textsInFlight > 0
    /\ textsInFlight' = textsInFlight - 1
    /\ status' = MsgUploadError(body)
    /\ uploadBtnDisabled' = FALSE
    /\ historyLinkEnabled' = enableHistoryLink
    /\ lastEvent' = Event("uploadErrorText", NoJob,
                          [NoResp EXCEPT !.outcome = "nonok", !.code = body],
                          FALSE)
    /\ UNCHANGED <<histVars, fnVars, envVars, answered, currentJobId, nextJob, timerVars, uploadsInFlight,
                   statusInFlight, downloadsInFlight, progressDisplay,
                   progressBarWidth, progressText>>

\* A catch block that leaves a live poll timer running.
uploadCatchNoStop ==
    /\ UNCHANGED <<timers, pollingInterval>>
    /\ progressDisplay' = "none"
    /\ status' = MsgCommError
    /\ uploadBtnDisabled' = FALSE
    /\ historyLinkEnabled' = enableHistoryLink
    /\ UNCHANGED <<histVars, fnVars, envVars, answered, currentJobId, nextJob, nextTimer,
                   statusInFlight, downloadsInFlight, progressBarWidth,
                   progressText>>

\* The catch block of the click handler.
uploadCatch ==
    /\ timers' = stopPolling(timers, pollingInterval)
    /\ pollingInterval' = NoTimer
    /\ progressDisplay' = "none"
    /\ status' = MsgCommError
    /\ uploadBtnDisabled' = FALSE
    /\ historyLinkEnabled' = enableHistoryLink
    /\ UNCHANGED <<histVars, fnVars, envVars, answered, currentJobId, nextJob, nextTimer, statusInFlight,
                   downloadsInFlight, progressBarWidth, progressText>>

\* fetch(endpoint) or startRes.json() rejected.
UploadThrow ==
    /\ uploadsInFlight > 0
    /\ uploadsInFlight' = uploadsInFlight - 1
    /\ lastEvent' = Event("uploadThrow", NoJob, NoResp, pollingInterval # NoTimer)
    /\ uploadCatch
    /\ UNCHANGED textsInFlight

\* startRes.text() rejected.
UploadTextThrow ==
    /\ textsInFlight > 0
    /\ textsInFlight' = textsInFlight - 1
    /\ lastEvent' = Event("uploadTextThrow", NoJob, NoResp,
                          pollingInterval # NoTimer)
    /\ uploadCatch
    /\ UNCHANGED uploadsInFlight

\* ------------------------------------------------------------- job poller

\* The interval callback of a live timer: pollStatus(instanceId) up to
\* `await fetch(statusEndpoint)`.
Tick(t) ==
    /\ t \in timers
    /\ outstanding < MaxInFlight
    /\ statusInFlight' = [statusInFlight EXCEPT ![t.job] = @ + 1]
    /\ lastEvent' = Event("tick", t.job, NoResp, FALSE)
    /\ UNCHANGED <<histVars, fnVars, envVars, answered, currentJobId, nextJob, timerVars, uiVars,
                   uploadsInFlight, textsInFlight, downloadsInFlight>>

\* A progress update that never moves the bar backwards.
progressAfterMonotone(r) ==
    IF r.customStatus # NoSnap /\ r.customStatus.progress >= progressBarWidth
    THEN <<renderWidth(r.customStatus), renderText(r.customStatus)>>
    ELSE <<progressBarWidth, progressText>>

\* if (data.customStatus) updateProgress(data.customStatus)
progressAfter(r) ==
    IF r.customStatus # NoSnap
    THEN <<renderWidth(r.customStatus), renderText(r.customStatus)>>
    ELSE <<progressBarWidth, progressText>>

\* A terminal branch that forgets to re-enable the submit control.
pollFinishKeepsDisabled(msg) ==
    /\ timers' = stopPolling(timers, pollingInterval)
    /\ pollingInterval' = NoTimer
    /\ progressDisplay' = "none"
    /\ status' = msg
    /\ uploadBtnDisabled' = uploadBtnDisabled
    /\ historyLinkEnabled' = enableHistoryLink

\* The terminal branches of pollStatus that stop the loop and release the
\* controls: stopPolling(); hide; status text; enable.
pollFinish(msg) ==
    /\ timers' = stopPolling(timers, pollingInterval)
    /\ pollingInterval' = NoTimer
    /\ progressDisplay' = "none"
    /\ status' = msg
    /\ uploadBtnDisabled' = FALSE
    /\ historyLinkEnabled' = enableHistoryLink

\* A completion test that also takes a full progress bar for completion.
isCompletedOrFull(r) ==
    r.runtimeStatus = "Completed" \/ r.customStatus.progress = 100

\* data.runtimeStatus === "Completed"
isCompleted(r) == r.runtimeStatus = "Completed"

\* data.runtimeStatus === "Failed"
isFailed(r) == r.runtimeStatus = "Failed"

\* An error path that hides the progress container before returning.
pollErrorAutoHides ==
    /\ progressDisplay' = "none"
    /\ UNCHANGED <<timerVars, uploadBtnDisabled, historyLinkEnabled, status,
                   progressBarWidth, progressText, downloadsInFlight>>

\* part_000: `if (!res.ok) return;` and the catch block, which only logs.
pollErrorAuto == UNCHANGED <<timerVars, uiVars, downloadsInFlight>>

\* A Completed branch that downloads the result of currentJobId instead of the
\* job the response belongs to.
completedAutoCurrent(j) ==
    /\ timers' = stopPolling(timers, pollingInterval)
    /\ pollingInterval' = NoTimer
    /\ downloadsInFlight' = [downloadsInFlight EXCEPT ![currentJobId] = @ + 1]
    /\ UNCHANGED <<uploadBtnDisabled, historyLinkEnabled, progressDisplay, status>>

\* part_000, Completed branch up to its await: stopPolling();
\* await downloadResult(instanceId), which sends the download request.
completedAuto(j) ==
    /\ timers' = stopPolling(timers, pollingInterval)
    /\ pollingInterval' = NoTimer
    /\ downloadsInFlight' = [downloadsInFlight EXCEPT ![j] = @ + 1]
    /\ UNCHANGED <<uploadBtnDisabled, historyLinkEnabled, progressDisplay, status>>

\* A Completed branch of the history-oriented page that still downloads.
completedHistDownloads(j) ==
    /\ pollFinish(MsgCompletedLink)
    /\ downloadsInFlight' = [downloadsInFlight EXCEPT ![j] = @ + 1]

\* part_001, Completed branch: the loop ends and the history link is offered.
completedHist(j) ==
    /\ pollFinish(MsgCompletedLink)
    /\ UNCHANGED downloadsInFlight

\* pollStatus of part_000 after the status request resolved.
pollStatusAuto(j, r) ==
    IF r.outcome # "ok"
    THEN pollErrorAuto
    ELSE /\ progressBarWidth' = progressAfter(r)[1]
         /\ progressText' = progressAfter(r)[2]
         /\ UNCHANGED nextTimer
         /\ IF isCompleted(r)
            THEN completedAuto(j)
            ELSE IF isFailed(r)
            THEN /\ pollFinish(MsgFailed)
                 /\ UNCHANGED downloadsInFlight
            ELSE UNCHANGED <<pollingInterval, timers, downloadsInFlight,
                             uploadBtnDisabled, historyLinkEnabled,
                             progressDisplay, status>>

\* pollStatus of part_001 after the status request resolved.
pollStatusHist(j, r) ==
    /\ UNCHANGED nextTimer
    /\ IF r.outcome = "nonok"
       THEN /\ pollFinish(ServerErrorMsg(r.code))
            /\ UNCHANGED <<progressBarWidth, progressText, downloadsInFlight>>
       ELSE IF r.outcome = "throw"
       THEN /\ pollFinish(MsgServerErrorThrown)
            /\ UNCHANGED <<progressBarWidth, progressText, downloadsInFlight>>
       ELSE /\ progressBarWidth' = progressAfter(r)[1]
            /\ progressText' = progressAfter(r)[2]
            /\ IF isCompleted(r)
               THEN completedHist(j)
               ELSE IF isFailed(r)
               THEN /\ pollFinish(MsgFailed)
                    /\ UNCHANGED downloadsInFlight
               ELSE UNCHANGED <<pollingInterval, timers, downloadsInFlight,
                                uploadBtnDisabled, historyLinkEnabled,
                                progressDisplay, status>>

\* pollStatus(j) running on from `await fetch(statusEndpoint)` with response r.
pollStatus(j, r) ==
    /\ statusInFlight[j] > 0
    /\ statusInFlight' = [statusInFlight EXCEPT ![j] = @ - 1]
    /\ answered' = [answered EXCEPT ![j] = TRUE]
    /\ lastEvent' = [Event("poll", j, r, FALSE) EXCEPT !.first = ~answered[j]]
    /\ IF variant = "auto" THEN pollStatusAuto(j, r) ELSE pollStatusHist(j, r)
    /\ UNCHANGED <<histVars, fnVars, variant, currentJobId, nextJob, uploadsInFlight,
                   textsInFlight>>

\* A status request of job j resolves with r, any response the backend can give.
PollResolve(j, r) ==
    /\ pollStatus(j, r)
    /\ UNCHANGED script

\* A status request of job j resolves with the next scripted response.
ScriptedPollResolve(j) ==
    /\ script # <<>>
    /\ pollStatus(j, Head(script))
    /\ script' = Tail(script)

\* -------------------------------------------------------- result retriever

\* What a download request can come to.  "nonok": the response is not a
\* success.  "throw": fetch rejects, there is no response.  "unreadable": the
\* response is a success, but res.blob() rejects or decodeURIComponent throws
\* on the header's file name.  "ok": a success response that is read and named.
DownloadOutcomes == {"ok", "nonok", "throw", "unreadable"}

\* A try block that never reaches revokeObjectURL.
downloadTryLeaks(outcome) ==
    CASE outcome = "nonok" -> DownloadRun(MsgDownloadFailed, FALSE, 0, 0, FALSE)
      [] outcome \in {"throw", "unreadable"} -> DownloadRun(NoMsg, TRUE, 0, 0, FALSE)
      [] OTHER -> DownloadRun(NoMsg, FALSE, 1, 0, TRUE)

\* The try block of downloadResult after its request resolved.  "nonok": the
\* message is written and the function returns.  "throw" and "unreadable":
\* the exception is raised before createObjectURL.  "ok": the blob is saved
\* through one object URL (createObjectURL, a.click()), which is revoked.
downloadTry(outcome) ==
    CASE outcome = "nonok" -> DownloadRun(MsgDownloadFailed, FALSE, 0, 0, FALSE)
      [] outcome \in {"throw", "unreadable"} -> DownloadRun(NoMsg, TRUE, 0, 0, FALSE)
      [] OTHER -> DownloadRun(NoMsg, FALSE, 1, 1, TRUE)

\* A catch block that logs, writes the message and throws the error again.
downloadCatchRethrows(run) ==
    IF run.thrown THEN [run EXCEPT !.message = MsgDownloadFailed] ELSE run

\* catch (err) { console.error(...); status.textContent = "ダウンロードに失敗しました"; }
downloadCatch(run) ==
    IF run.thrown
    THEN [run EXCEPT !.message = MsgDownloadFailed, !.thrown = FALSE]
    ELSE run

\* downloadResult(instanceId) after its request resolved.
downloadResult(outcome) == downloadCatch(downloadTry(outcome))

\* The status text after downloadResult, given the text before it.
statusAfterDownload(run, st) == IF run.message = NoMsg THEN st ELSE run.message

\* The lines of pollStatus that follow `await downloadResult(instanceId)`.
afterDownload(st) == MsgCompleted

\* A download request of job j resolves; downloadResult returns and the
\* Completed branch of pollStatus (part_000) runs to its end.
DownloadResolve(j, outcome) ==
    /\ downloadsInFlight[j] > 0
    /\ downloadsInFlight' = [downloadsInFlight EXCEPT ![j] = @ - 1]
    /\ IF downloadResult(outcome).thrown
       THEN \* the await rejects: the catch block of pollStatus only logs
            /\ status' = statusAfterDownload(downloadResult(outcome), status)
            /\ UNCHANGED <<progressDisplay, uploadBtnDisabled>>
       ELSE /\ progressDisplay' = "none"
            /\ status' = afterDownload(statusAfterDownload(downloadResult(outcome),
                                                          status))
            /\ uploadBtnDisabled' = FALSE
    /\ lastEvent' = [Event("download", j,
                           [NoResp EXCEPT !.outcome = outcome], FALSE)
                        EXCEPT !.dl = downloadResult(outcome)]
    /\ UNCHANGED <<histVars, fnVars, envVars, answered, currentJobId, nextJob, timerVars, historyLinkEnabled,
                   progressBarWidth, progressText, uploadsInFlight,
                   textsInFlight, statusInFlight>>

\* -------------------------------------------------------------------- Next
Next ==
    \/ \E mode \in Modes : \E sel \in Selections(mode) : ClickInvalid(mode, sel)
    \/ \E mode \in Modes : \E sel \in Selections(mode) : ClickValid(mode, sel)
    \/ UploadOk
    \/ UploadNonOk
    \/ \E body \in ErrorBodies : UploadErrorText(body)
    \/ UploadThrow
    \/ UploadTextThrow
    \/ \E t \in timers : Tick(t)
    \/ \E j \in JobIds, r \in StatusResponses : PollResolve(j, r)
    \/ \E j \in JobIds, outcome \in DownloadOutcomes : DownloadResolve(j, outcome)

Spec == Init /\ [][Next]_vars

\* ------------------------------------------------- scripted-backend scenario
\* One job is submitted and the backend answers its status requests, in order,
\* with progress 10, progress 40, and progress 100 with runtimeStatus Completed;
\* status requests beyond the script stay unanswered.
scriptedResponse(p, rs) ==
    [outcome |-> "ok", code |-> 200, runtimeStatus |-> rs,
     customStatus |-> [stage |-> "structuring", message |-> "m1", progress |-> p]]

ScenarioScript ==
    <<scriptedResponse(10, "Running"), scriptedResponse(40, "Running"),
      scriptedResponse(100, "Completed")>>

InitScenario ==
    /\ variant \in Variants
    /\ pollingInterval = NoTimer
    /\ currentJobId = NoJob
    /\ timers = {}
    /\ nextTimer = 0
    /\ nextJob = 0
    /\ uploadBtnDisabled = FALSE
    /\ historyLinkEnabled = TRUE
    /\ progressDisplay = "none"
    /\ status = NoMsg
    /\ progressBarWidth = 0
    /\ progressText = <<"", 0>>
    /\ uploadsInFlight = 0
    /\ textsInFlight = 0
    /\ statusInFlight = [j \in JobIds |-> 0]
    /\ downloadsInFlight = [j \in JobIds |-> 0]
    /\ answered = [j \in JobIds |-> FALSE]
    /\ lastEvent = Event("init", NoJob, NoResp, FALSE)
    /\ HistoryClosed
    /\ FunctionsIdle
    /\ script = ScenarioScript

NextScenario ==
    \/ \E mode \in Modes : \E sel \in Selections(mode) : ClickInvalid(mode, sel)
    \/ \E mode \in Modes : \E sel \in Selections(mode) : ClickValid(mode, sel)
    \/ nextJob = 0 /\ UploadOk
    \/ UploadNonOk
    \/ \E body \in ErrorBodies : UploadErrorText(body)
    \/ UploadThrow
    \/ UploadTextThrow
    \/ \E t \in timers : Tick(t)
    \/ \E j \in JobIds : ScriptedPollResolve(j)
    \/ \E j \in JobIds, outcome \in DownloadOutcomes : DownloadResolve(j, outcome)

SpecScenario == InitScenario /\ [][NextScenario]_vars

\* ----------------------------------------------------------- history page
histOutstanding ==
    sumUpTo(deletesInFlight, MaxEntries) + histDownloadsInFlight

\* loadHistory(): the list request resolved with a success status and a JSON
\* array; the collection is kept (sorted), currentPage = 1, renderPage().
LoadOk(list) ==
    /\ listInFlight
    /\ listInFlight' = FALSE
    /\ allResults' = afterLoad(list, histKind)
    /\ currentPage' = 1
    /\ tbody' = renderBody(allResults', currentPage', histKind)
    /\ pagination' = renderControls(allResults', currentPage', histKind)
    /\ histEvent' = HistEvent("loadOk", 0, "ok", FALSE, TRUE)
    /\ UNCHANGED <<mainVars, fnVars, histDownloadsInFlight, histKind, deletesInFlight>>

\* A catch block that writes the error row and throws the error again.
loadCatchRethrows(err) == [body |-> Body("error", <<>>), uncaught |-> TRUE]

\* loadHistory, catch (err): historyBody.innerHTML = the error row with
\* err.message; the error goes no further.
loadCatch(err) == [body |-> Body("error", <<>>), uncaught |-> FALSE]

\* loadHistory(): the request failed -- a non-success answer (the Error thrown
\* by `if (!res.ok)`), a rejected fetch, or a body res.json() cannot parse --
\* before allResults was assigned; the catch block writes the error row.
LoadFail(outcome) ==
    /\ listInFlight
    /\ listInFlight' = FALSE
    /\ tbody' = loadCatch(outcome).body
    /\ histEvent' = [HistEvent("loadFail", 0, outcome, FALSE, FALSE)
                        EXCEPT !.uncaught = loadCatch(outcome).uncaught]
    /\ UNCHANGED <<mainVars, fnVars, histDownloadsInFlight, histKind, allResults, currentPage, pagination,
                   deletesInFlight>>

\* A changePage that asks the backend for the list again.
changePageReloads(page) ==
    /\ currentPage' = page
    /\ tbody' = renderBody(allResults, currentPage', histKind)
    /\ pagination' = renderControls(allResults, currentPage', histKind)
    /\ listInFlight' = TRUE
    /\ UNCHANGED <<allResults, deletesInFlight, histDownloadsInFlight>>

\* changePage(page): currentPage = page; renderPage();
changePage(page) ==
    /\ currentPage' = page
    /\ tbody' = renderBody(allResults, currentPage', histKind)
    /\ pagination' = renderControls(allResults, currentPage', histKind)
    /\ UNCHANGED <<allResults, listInFlight, deletesInFlight, histDownloadsInFlight>>

\* A click on the k-th control of #pagination.
ChangePage(k) ==
    /\ k \in DOMAIN pagination
    /\ pagination[k].kind \in {"PREV", "NUM", "NEXT"}
    /\ ~pagination[k].disabled
    /\ changePage(pagination[k].page)
    /\ histEvent' = [HistEvent("changePage", 0, "", FALSE, TRUE)
                        EXCEPT !.from = currentPage]
    /\ UNCHANGED <<mainVars, fnVars, histKind>>

\* A row action that takes the position of the row for the id.
rowTargetIndex(rows, k) == k

\* onclick="deleteItem('${item.instanceId}')" / "download('${item.instanceId}')":
\* the id the buttons of the k-th rendered row pass.
rowTarget(rows, k) == rows[k]

\* A click on the delete button of the k-th rendered row, confirm() declined.
DeleteDeclined(k) ==
    /\ k \in DOMAIN tbody.rows
    /\ histEvent' = [HistEvent("deleteDeclined", rowTarget(tbody.rows, k), "",
                               FALSE, FALSE) EXCEPT !.row = k]
    /\ UNCHANGED <<mainVars, fnVars, histDownloadsInFlight, histKind, allResults, currentPage, tbody,
                   pagination, listInFlight, deletesInFlight>>

\* A click on the delete button of the k-th rendered row, confirmed:
\* deleteItem up to `await fetch(.../delete/${instanceId})`.
DeleteConfirmed(k) ==
    /\ k \in DOMAIN tbody.rows
    /\ histOutstanding < MaxInFlight
    /\ deletesInFlight' =
          [deletesInFlight EXCEPT ![rowTarget(tbody.rows, k)] = @ + 1]
    /\ histEvent' = [HistEvent("deleteSent", rowTarget(tbody.rows, k), "",
                               FALSE, FALSE) EXCEPT !.row = k]
    /\ UNCHANGED <<mainVars, fnVars, histDownloadsInFlight, histKind, allResults, currentPage, tbody,
                   pagination, listInFlight>>

\* A deleteItem whose failure still removes the entry from the page.
deleteFailedRemoves(id) ==
    /\ allResults' = removeId(allResults, id)
    /\ currentPage' = currentPage
    /\ tbody' = renderBody(allResults', currentPage', histKind)
    /\ pagination' = renderControls(allResults', currentPage', histKind)

\* deleteItem, catch block: alert() only.
deleteFailed(id) == UNCHANGED <<allResults, currentPage, tbody, pagination>>

\* A success path that also drops every entry whose delete is still pending.
deleteSucceededDropsPending(id) ==
    /\ allResults' = SelectSeq(removeId(allResults, id),
                               LAMBDA e : deletesInFlight[e.instanceId] = 0)
    /\ currentPage' = IF isPaged(histKind)
                      THEN clampPage(currentPage, allResults')
                      ELSE currentPage
    /\ tbody' = renderBody(allResults', currentPage', histKind)
    /\ pagination' = renderControls(allResults', currentPage', histKind)

\* deleteItem after a success response: filter, clamp (paginated scripts),
\* renderPage().
deleteSucceeded(id) ==
    /\ allResults' = removeId(allResults, id)
    /\ currentPage' = IF isPaged(histKind)
                      THEN clampPage(currentPage, allResults')
                      ELSE currentPage
    /\ tbody' = renderBody(allResults', currentPage', histKind)
    /\ pagination' = renderControls(allResults', currentPage', histKind)

\* The DELETE request of entry id resolves.
DeleteResolve(id, outcome) ==
    /\ deletesInFlight[id] > 0
    /\ deletesInFlight' = [deletesInFlight EXCEPT ![id] = @ - 1]
    /\ IF outcome = "ok"
       THEN /\ deleteSucceeded(id)
            /\ histEvent' = [HistEvent("deleteOk", id, outcome, FALSE, TRUE)
                               EXCEPT !.from = currentPage,
                                      !.removed = Len(allResults)
                                                  - Len(allResults')]
       ELSE /\ deleteFailed(id)
            /\ histEvent' = HistEvent("deleteFail", id, outcome, TRUE, FALSE)
    /\ UNCHANGED <<mainVars, fnVars, histDownloadsInFlight, histKind, listInFlight>>

\* A click on the download button of the k-th rendered row: download() up to
\* `await fetch(.../download/${instanceId})`.
DownloadClick(k) ==
    /\ k \in DOMAIN tbody.rows
    /\ histOutstanding < MaxInFlight
    /\ histDownloadsInFlight' = histDownloadsInFlight + 1
    /\ histEvent' = [HistEvent("downloadSent", rowTarget(tbody.rows, k), "",
                               FALSE, FALSE) EXCEPT !.row = k]
    /\ UNCHANGED <<mainVars, fnVars, histKind, allResults, currentPage, tbody,
                   pagination, listInFlight, deletesInFlight>>

\* download(instanceId) of the history page after its request resolved: a
\* non-success response throws inside the try block, like a rejected fetch or
\* an unreadable answer, and the catch block raises the alert; otherwise the
\* blob is saved through one object URL, which is revoked.
download(outcome) ==
    IF outcome = "ok"
    THEN DownloadRun(NoMsg, FALSE, 1, 1, TRUE)
    ELSE DownloadRun(<<"alert", 0>>, FALSE, 0, 0, FALSE)

\* download() after its request resolved: a success response is saved through
\* a temporary link; a non-success response or an exception raises the alert.
\* The page's collection and its rendering are not touched.
HistDownloadResolve(outcome) ==
    /\ histDownloadsInFlight > 0
    /\ histDownloadsInFlight' = histDownloadsInFlight - 1
    /\ histEvent' = HistEvent(IF download(outcome).saved
                              THEN "downloadOk" ELSE "downloadFail",
                              0, outcome, download(outcome).message # NoMsg, FALSE)
    /\ UNCHANGED <<mainVars, fnVars, histKind, allResults, currentPage, tbody,
                   pagination, listInFlight, deletesInFlight>>

\* The main page is not open.
MainIdle ==
    /\ variant = "hist"
    /\ pollingInterval = NoTimer
    /\ currentJobId = NoJob
    /\ timers = {}
    /\ nextTimer = 0
    /\ nextJob = 0
    /\ uploadBtnDisabled = FALSE
    /\ historyLinkEnabled = TRUE
    /\ progressDisplay = "none"
    /\ status = NoMsg
    /\ progressBarWidth = 0
    /\ progressText = <<"", 0>>
    /\ uploadsInFlight = 0
    /\ textsInFlight = 0
    /\ statusInFlight = [j \in JobIds |-> 0]
    /\ downloadsInFlight = [j \in JobIds |-> 0]
    /\ answered = [j \in JobIds |-> FALSE]
    /\ lastEvent = Event("init", NoJob, NoResp, FALSE)
    /\ script = <<>>

InitHistory ==
    /\ MainIdle
    /\ FunctionsIdle
    /\ histKind \in HistKinds
    /\ allResults = <<>>
    /\ currentPage = 1
    /\ tbody = Body("initial", <<>>)
    /\ pagination = <<>>
    /\ listInFlight = TRUE
    /\ deletesInFlight = [i \in EntryIds |-> 0]
    /\ histDownloadsInFlight = 0
    /\ histEvent = HistEvent("none", 0, "", FALSE, FALSE)

NextHistory ==
    \/ \E list \in BackendLists : LoadOk(list)
    \/ \E outcome \in {"nonok", "throw", "unparsable"} : LoadFail(outcome)
    \/ \E k \in DOMAIN pagination : ChangePage(k)
    \/ \E k \in DOMAIN tbody.rows : DeleteDeclined(k)
    \/ \E k \in DOMAIN tbody.rows : DeleteConfirmed(k)
    \/ \E id \in EntryIds, outcome \in {"ok", "nonok", "throw"} :
          DeleteResolve(id, outcome)
    \/ \E k \in DOMAIN tbody.rows : DownloadClick(k)
    \/ \E outcome \in DownloadOutcomes : HistDownloadResolve(outcome)

SpecHistory == InitHistory /\ [][NextHistory]_vars

\* ------------------------------------------------ helper functions alone
\* The helper functions of the scripts, each called once with an argument
\* drawn from a bounded set.  Neither page is open.
\* renderPagination is called with totalPages = Math.ceil(length / 5) and a
\* currentPage that renderPage has clamped into 1..totalPages.
MaxPages == 8
PaginationInputs ==
    {tp \in (0..MaxPages) \X (1..MaxPages) : tp[2] <= tp[1] \/ tp[2] = 1}

\* ----------------------------------------------------- download file name
\* Strings are sequences of one-character strings; Ascii lists the printable
\* characters from code 32 to code 126 ("grave" stands for code 96).
Ascii ==
    <<" ", "!", "\"", "#", "$", "%", "&", "'", "(", ")", "*", "+", ",",
      "-", ".", "/", "0", "1", "2", "3", "4", "5", "6", "7", "8", "9", ":",
      ";", "<", "=", ">", "?", "@", "A", "B", "C", "D", "E", "F", "G", "H",
      "I", "J", "K", "L", "M", "N", "O", "P", "Q", "R", "S", "T", "U", "V",
      "W", "X", "Y", "Z", "[", "\\", "]", "^", "_", "grave", "a", "b", "c",
      "d", "e", "f", "g", "h", "i", "j", "k", "l", "m", "n", "o", "p", "q",
      "r", "s", "t", "u", "v", "w", "x", "y", "z", "{", "|", "}", "~">>

charCode(c) == 31 + (CHOOSE k \in 1..Len(Ascii) : Ascii[k] = c)
codes(chars) == [k \in 1..Len(chars) |-> charCode(chars[k])]

\* The value of a hexadecimal digit, NotHex for any other character.
NotHex == 16
hexValue(c) ==
    LET upper == <<"0", "1", "2", "3", "4", "5", "6", "7", "8", "9",
                   "A", "B", "C", "D", "E", "F">>
        lower == <<"a", "b", "c", "d", "e", "f">>
    IN IF \E k \in 1..Len(upper) : upper[k] = c
       THEN (CHOOSE k \in 1..Len(upper) : upper[k] = c) - 1
       ELSE IF \E k \in 1..Len(lower) : lower[k] = c
       THEN (CHOOSE k \in 1..Len(lower) : lower[k] = c) + 9
       ELSE NotHex

\* The result of decodeURIComponent: the code points of the decoded string,
\* or a URIError.
Decoded(cps) == [threw |-> FALSE, value |-> cps]
URIError == [threw |-> TRUE, value |-> <<>>]
prepend(cp, rest) == IF rest.threw THEN rest ELSE Decoded(<<cp>> \o rest.value)

\* s[k] is "%" followed by two hexadecimal digits, and the byte they spell.
isEscape(s, k) ==
    /\ k + 2 <= Len(s)
    /\ s[k] = "%"
    /\ hexValue(s[k + 1]) # NotHex
    /\ hexValue(s[k + 2]) # NotHex
escapedByte(s, k) == 16 * hexValue(s[k + 1]) + hexValue(s[k + 2])

\* The number of leading 1 bits of a byte.
leadingOnes(b) ==
    IF b < 128 THEN 0 ELSE IF b < 192 THEN 1 ELSE IF b < 224 THEN 2
    ELSE IF b < 240 THEN 3 ELSE IF b < 248 THEN 4 ELSE 5

\* The n bytes spelled by the n escapes that start at s[k].
octets(s, k, n) == [j \in 1..n |-> escapedByte(s, k + 3 * (j - 1))]

codePointOf(oct) ==
    CASE Len(oct) = 2 -> (oct[1] % 32) * 64 + (oct[2] % 64)
      [] Len(oct) = 3 -> (oct[1] % 16) * 4096 + (oct[2] % 64) * 64 + (oct[3] % 64)
      [] OTHER -> (oct[1] % 8) * 262144 + (oct[2] % 64) * 4096
                  + (oct[3] % 64) * 64 + (oct[4] % 64)

\* The bytes are the UTF-8 encoding of one code point: continuation bytes,
\* shortest form, no surrogate, at most U+10FFFF.
validOctets(oct) ==
    /\ \A j \in 2..Len(oct) : oct[j] >= 128 /\ oct[j] < 192
    /\ codePointOf(oct) >= (CASE Len(oct) = 2 -> 128 [] Len(oct) = 3 -> 2048
                              [] OTHER -> 65536)
    /\ codePointOf(oct) \notin 55296..57343
    /\ codePointOf(oct) <= 1114111

\* decodeURIComponent(s) from position k on.
RECURSIVE decodeFrom(_, _)
decodeFrom(s, k) ==
    IF k > Len(s) THEN Decoded(<<>>)
    ELSE IF s[k] # "%" THEN prepend(charCode(s[k]), decodeFrom(s, k + 1))
    ELSE IF ~isEscape(s, k) THEN URIError
    ELSE IF leadingOnes(escapedByte(s, k)) = 0
    THEN prepend(escapedByte(s, k), decodeFrom(s, k + 3))
    ELSE LET n == leadingOnes(escapedByte(s, k)) IN
         IF n = 1 \/ n > 4 THEN URIError
         ELSE IF \E j \in 1..(n - 1) : ~isEscape(s, k + 3 * j) THEN URIError
         ELSE IF ~validOctets(octets(s, k, n)) THEN URIError
         ELSE prepend(codePointOf(octets(s, k, n)), decodeFrom(s, k + 3 * n))

\* A decoder that returns the characters as they are.
decodeURIComponentRaw(s) == Decoded(codes(s))

decodeURIComponent(s) == decodeFrom(s, 1)

\* /filename\*=UTF-8''(.+)/ : the literal text, then at least one character;
\* the group takes the rest of the header (a header has no line terminator).
FilenameStar ==
    <<"f", "i", "l", "e", "n", "a", "m", "e", "*", "=", "U", "T", "F", "-",
      "8", "'", "'">>
literalAt(h, i) ==
    /\ i + Len(FilenameStar) <= Len(h)
    /\ SubSeq(h, i, i + Len(FilenameStar) - 1) = FilenameStar
match(h) ==
    IF \E i \in 1..Len(h) : literalAt(h, i)
    THEN LET first == CHOOSE i \in 1..Len(h) :
                         literalAt(h, i) /\ \A j \in 1..(i - 1) : ~literalAt(h, j)
         IN [matched |-> TRUE, group |-> SubSeq(h, first + Len(FilenameStar), Len(h))]
    ELSE [matched |-> FALSE, group |-> <<>>]

\* res.headers.get('content-disposition'): null, or the header's text.
NoHeader == [present |-> FALSE, text |-> <<>>]
Header(text) == [present |-> TRUE, text |-> text]

DefaultFilename ==
    codes(
    <<"g", "e", "n", "e", "r", "a", "t", "e", "d", "_", "f", "i", "l", "e",
      "s", ".", "z", "i", "p">>)

\* let filename = 'generated_files.zip'; if (contentDisposition) { const match
\* = ...; if (match) filename = decodeURIComponent(match[1]); }
filename(contentDisposition) ==
    IF ~contentDisposition.present \/ contentDisposition.text = <<>>
    THEN Decoded(DefaultFilename)
    ELSE IF match(contentDisposition.text).matched
    THEN decodeURIComponent(match(contentDisposition.text).group)
    ELSE Decoded(DefaultFilename)

\* Headers the backend may send: nothing, or an optional "attachment; ", a
\* parameter name and a value built from at most MaxParts fragments; and two
\* headers with a Japanese name, ending in %E6%A8%98.zip and in %E6%A7%98.zip.
MaxParts == 3
RECURSIVE NamesUpTo(_)
NamesUpTo(n) ==
    IF n = 0 THEN {<<>>}
    ELSE NamesUpTo(n - 1) \cup
         {a \o f : a \in NamesUpTo(n - 1),
                   f \in {<<"z">>, <<"4">>, <<"%">>, <<"%", "4", "4">>,
                          <<"%", "E", "4">>, <<"%", "B", "B">>}}
Attachment ==
    <<"a", "t", "t", "a", "c", "h", "m", "e", "n", "t", ";", " ">>
ExampleHeader ==
    Header(
    <<"a", "t", "t", "a", "c", "h", "m", "e", "n", "t", ";", " ", "f", "i",
      "l", "e", "n", "a", "m", "e", "*", "=", "U", "T", "F", "-", "8", "'",
      "'", "%", "E", "4", "%", "B", "B", "%", "9", "5", "%", "E", "6", "%",
      "A", "8", "%", "9", "8", ".", "z", "i", "p">>)
SecondExampleHeader ==
    Header(
    <<"a", "t", "t", "a", "c", "h", "m", "e", "n", "t", ";", " ", "f", "i",
      "l", "e", "n", "a", "m", "e", "*", "=", "U", "T", "F", "-", "8", "'",
      "'", "%", "E", "4", "%", "B", "B", "%", "9", "5", "%", "E", "6", "%",
      "A", "7", "%", "9", "8", ".", "z", "i", "p">>)
HeaderInputs ==
    {NoHeader, ExampleHeader, SecondExampleHeader} \cup
    {Header(lead \o param \o name) :
        lead \in {<<>>, Attachment},
        param \in {FilenameStar,
                   <<"f", "i", "l", "e", "n", "a", "m", "e", "=">>,
                   <<"f", "i", "l", "e", "n", "a", "m", "e", "*", "=",
                     "u", "t", "f", "-", "8", "'", "'">>},
        name \in NamesUpTo(MaxParts)}

ApplyFilename ==
    /\ fnCall.fn = "filename"
    /\ ~fnResult.done
    /\ fnResult' = Returned(filename(fnCall.arg))
    /\ UNCHANGED <<mainVars, histVars, fnCall>>

\* -------------------------------------------------------------- formatSize
\* The decimal digits of a natural number.
RECURSIVE toDecimal(_)
toDecimal(n) ==
    IF n < 10 THEN <<Ascii[n + 17]>>
    ELSE toDecimal(n \div 10) \o <<Ascii[(n % 10) + 17]>>

\* Number.prototype.toFixed(2) of bytes / (1024 * 1024).  The quotient is
\* exact in binary floating point, and toFixed takes the integer n with
\* n / 100 nearest to it, the larger one on a tie.
toFixed2(bytes) ==
    LET n == (bytes * 100 + 524288) \div 1048576
    IN toDecimal(n \div 100) \o <<".">> \o toDecimal((n \div 10) % 10)
       \o toDecimal(n % 10)

\* A formatSize that divides by a million.
formatSizeDecimal(bytes) ==
    IF bytes.type # "number" \/ bytes.n = 0 THEN <<"-">>
    ELSE LET n == (bytes.n * 100 + 500000) \div 1000000
         IN toDecimal(n \div 100) \o <<".">> \o toDecimal((n \div 10) % 10)
            \o toDecimal(n % 10) \o <<" ", "M", "B">>

\* formatSize(bytes): `if (!bytes) return '-'`, which undefined, null, NaN
\* and 0 all take; otherwise `${mb.toFixed(2)} MB`.
formatSize(bytes) ==
    IF bytes.type # "number" \/ bytes.n = 0 THEN <<"-">>
    ELSE toFixed2(bytes.n) \o <<" ", "M", "B">>

\* Sizes the backend may report: none, null, NaN, or whole mebibytes up to
\* MaxMiB plus a remainder on either side of a rounding step.
MaxMiB == 12
SizeInputs ==
    {[type |-> t, n |-> 0] : t \in {"undefined", "null", "NaN"}} \cup
    {[type |-> "number", n |-> m * 1048576 + d] :
        m \in 0..MaxMiB,
        d \in {0, 1, 5242, 5243, 131072, 524288, 1043333, 1043334}}

ApplyFormatSize ==
    /\ fnCall.fn = "formatSize"
    /\ ~fnResult.done
    /\ fnResult' = Returned(formatSize(fnCall.arg))
    /\ UNCHANGED <<mainVars, histVars, fnCall>>

\* ---------------------------------------------------------- updateProgress
\* updateProgress(data): the bar width and the text it writes.
updateProgress(data) == [width |-> renderWidth(data), text |-> renderText(data)]

\* Snapshots a status answer may carry: the five stages of the table, other
\* stage names, messages, and progress values in and out of 0..100.
SnapshotInputs ==
    [stage : {"structuring", "diff", "perspectives", "testspec", "converting",
              "other", "", "constructor", "toString", "__proto__"},
     message : {"m1", ""},
     progress : {-5, 0, 40, 100, 150}]

ApplyUpdateProgress ==
    /\ fnCall.fn = "updateProgress"
    /\ ~fnResult.done
    /\ fnResult' = Returned(updateProgress(fnCall.arg))
    /\ UNCHANGED <<mainVars, histVars, fnCall>>

\* ------------------------------------------------------------- renderPage
\* Collections of up to MaxLength entries and the pages they have (page 1 for
\* the empty collection, which renderPage shows as the empty row).
MaxLength == 12
RenderPageInputs ==
    {np \in (0..MaxLength) \X (1..MaxLength) :
        np[2] <= totalPagesOf(descending(np[1])) \/ np[2] = 1}

\* renderPage() with allResults the newest-first list of arg[1] entries and
\* currentPage = arg[2]: the rows written to #historyBody.
ApplyRenderPage ==
    /\ fnCall.fn = "renderPage"
    /\ ~fnResult.done
    /\ fnResult' = Returned(renderBody(descending(fnCall.arg[1]), fnCall.arg[2],
                                       "plain"))
    /\ UNCHANGED <<mainVars, histVars, fnCall>>

\* ---------------------------------------------------------------- downloads
\* downloadResult(instanceId) of the main page, by what its request came to.
ApplyDownloadResult ==
    /\ fnCall.fn = "downloadResult"
    /\ ~fnResult.done
    /\ fnResult' = Returned(downloadResult(fnCall.arg))
    /\ UNCHANGED <<mainVars, histVars, fnCall>>

\* download(instanceId) of the history page, by what its request came to.
ApplyDownload ==
    /\ fnCall.fn = "download"
    /\ ~fnResult.done
    /\ fnResult' = Returned(download(fnCall.arg))
    /\ UNCHANGED <<mainVars, histVars, fnCall>>

FnCalls ==
    {[fn |-> "renderPagination", arg |-> a] : a \in PaginationInputs}
    \cup {[fn |-> f, arg |-> a] : f \in {"downloadResult", "download"},
                                  a \in DownloadOutcomes}
    \cup {[fn |-> "renderPage", arg |-> a] : a \in RenderPageInputs}
    \cup {[fn |-> "filename", arg |-> a] : a \in HeaderInputs}
    \cup {[fn |-> "formatSize", arg |-> a] : a \in SizeInputs}
    \cup {[fn |-> "updateProgress", arg |-> a] : a \in SnapshotInputs}

ApplyRenderPagination ==
    /\ fnCall.fn = "renderPagination"
    /\ ~fnResult.done
    /\ fnResult' = Returned(renderPagination(fnCall.arg[1], fnCall.arg[2]))
    /\ UNCHANGED <<mainVars, histVars, fnCall>>

InitFunctions ==
    /\ MainIdle
    /\ HistoryClosed
    /\ fnCall \in FnCalls
    /\ fnResult = NotReturned

NextFunctions ==
    \/ ApplyRenderPagination
    \/ ApplyRenderPage
    \/ ApplyDownloadResult
    \/ ApplyDownload
    \/ ApplyFilename
    \/ ApplyFormatSize
    \/ ApplyUpdateProgress

SpecFunctions == InitFunctions /\ [][NextFunctions]_vars

\* ================================================================== claims

\* ---- C1
\* At most one interval timer is live, and a live timer's handle is the value
\* of pollingInterval.  When startPolling is called while a timer is live, the
\* call leaves exactly one live timer, the one of the job just passed; every
\* tick issues exactly one status request, for the job of the latest
\* startPolling call (currentJobId), and for no other job.
C1_TimerInv ==
    /\ Cardinality(timers) <= 1
    /\ \A t \in timers : t.h = pollingInterval /\ t.job = currentJobId
    /\ lastEvent.kind = "uploadOk" =>
          timers = {[h |-> pollingInterval, job |-> lastEvent.job]}

C1_TickStep ==
    lastEvent'.kind = "tick" =>
        /\ lastEvent'.job = currentJobId
        /\ statusInFlight' =
              [statusInFlight EXCEPT ![currentJobId] = @ + 1]

C1_OneLiveTimer == [](C1_TimerInv) /\ [][C1_TickStep]_vars

\* startPolling was called while the previous job's timer was still live, and
\* one timer is live afterwards.
C1_Witness ==
    /\ lastEvent.kind = "uploadOk"
    /\ lastEvent.armed
    /\ Cardinality(timers) = 1

\* ---- C2
\* A status response of job A that resolves while the live timer belongs to
\* another job B (A's loop has ended, B was submitted and armed) does not clear
\* B's timer, does not re-enable the submit control, does not hide the progress
\* container and does not overwrite the status text.
C2_LateResponseStep ==
    (lastEvent'.kind = "poll" /\ \E t \in timers : t.job # lastEvent'.job) =>
        /\ timers' = timers
        /\ pollingInterval' = pollingInterval
        /\ uploadBtnDisabled' = uploadBtnDisabled
        /\ progressDisplay' = progressDisplay
        /\ status' = status

C2_LateResponseHarmless == [][C2_LateResponseStep]_vars

\* ---- C3
\* Whenever a status response carrying a customStatus has been handled, also
\* while other polls of the same job are still in flight, the bar width and the
\* progress text are exactly those of that response: width, label and
\* percentage all come from the response that resolved last.
C3_LastResolvedWins ==
    (/\ lastEvent.kind = "poll"
     /\ lastEvent.resp.outcome = "ok"
     /\ lastEvent.resp.customStatus # NoSnap) =>
        LET cs == lastEvent.resp.customStatus
        IN /\ progressBarWidth = cs.progress
           /\ progressText =
                 <<IF cs.stage = "structuring" THEN "label-structuring"
                   ELSE cs.message, cs.progress>>

\* One of two overlapping polls of a job has resolved with a snapshot while
\* the other is still in flight.
C3_Witness ==
    /\ lastEvent.kind = "poll"
    /\ lastEvent.resp.customStatus # NoSnap
    /\ statusInFlight[lastEvent.job] >= 1
    /\ progressBarWidth = lastEvent.resp.customStatus.progress

\* ---- C4
\* With the responses of a job processed in order as progress 10, progress 40,
\* progress 100 + Completed: the bar width is 10 after the first, 40 after the
\* second, 100 after the third; once the Completed response has been handled
\* the timer is cleared and no status request is issued afterwards.
C4_ScenarioInv ==
    /\ Len(script) = 2 => progressBarWidth = 10 /\ timers # {}
    /\ Len(script) = 1 => progressBarWidth = 40 /\ timers # {}
    /\ Len(script) = 0 => timers = {} /\ pollingInterval = NoTimer
    /\ (Len(script) = 0 /\ lastEvent.kind = "poll") => progressBarWidth = 100

C4_NoNewGet ==
    Len(script) = 0 => \A j \in JobIds : statusInFlight'[j] <= statusInFlight[j]

C4_CompletedEndsPolling == [](C4_ScenarioInv) /\ [][C4_NoNewGet]_vars

\* The third response has just been handled.
C4_Witness ==
    /\ script = <<>>
    /\ lastEvent.kind = "poll"
    /\ lastEvent.resp.runtimeStatus = "Completed"
    /\ progressBarWidth = 100
    /\ timers = {}

\* ---- C5
\* After pollStatus handled a success response with runtimeStatus Failed: no
\* timer is live, pollingInterval is null, the progress container is hidden,
\* the failure message is shown and the submit control is enabled; handling
\* that response issues no download request.
C5_FailedInv ==
    (/\ lastEvent.kind = "poll"
     /\ lastEvent.resp.outcome = "ok"
     /\ lastEvent.resp.runtimeStatus = "Failed") =>
        /\ timers = {}
        /\ pollingInterval = NoTimer
        /\ progressDisplay = "none"
        /\ status = MsgFailed
        /\ ~uploadBtnDisabled

C5_FailedStep ==
    (lastEvent'.kind = "poll" /\ lastEvent'.resp.runtimeStatus = "Failed") =>
        downloadsInFlight' = downloadsInFlight

C5_FailedEndsJob == [](C5_FailedInv) /\ [][C5_FailedStep]_vars

\* A Failed response has been handled for a job that was being polled.
C5_Witness ==
    /\ lastEvent.kind = "poll"
    /\ lastEvent.resp.runtimeStatus = "Failed"
    /\ lastEvent.job = currentJobId
    /\ status = MsgFailed
    /\ ~uploadBtnDisabled

\* ---- C6
\* Auto-download variant: handling a Completed response stops polling and
\* issues the download request for the same job, leaving the progress
\* container, the status text and the submit control as they were; when the
\* download has returned the container is hidden, the success message shown
\* and the submit control enabled; the submit control is disabled for as long
\* as a download is in flight.
C6_CompletedStep ==
    (/\ variant = "auto"
     /\ lastEvent'.kind = "poll"
     /\ lastEvent'.resp.runtimeStatus = "Completed") =>
        /\ timers' = {}
        /\ pollingInterval' = NoTimer
        /\ downloadsInFlight' =
              [downloadsInFlight EXCEPT ![lastEvent'.job] = @ + 1]
        /\ UNCHANGED <<progressDisplay, status, uploadBtnDisabled>>

C6_DownloadReturned ==
    (variant = "auto" /\ lastEvent.kind = "download") =>
        /\ progressDisplay = "none"
        /\ status = MsgCompleted
        /\ ~uploadBtnDisabled

C6_DisabledDuringDownload ==
    (variant = "auto" /\ \E j \in JobIds : downloadsInFlight[j] > 0) =>
        uploadBtnDisabled

C6_DownloadOrder ==
    /\ [][C6_CompletedStep]_vars
    /\ [](C6_DownloadReturned)
    /\ [](C6_DisabledDuringDownload)

\* ---- C7
\* History-oriented variant: no download request is ever issued by the main
\* page; after a Completed response no timer is live, the progress container
\* is hidden, the success message with the history link is shown, and the
\* submit control and the history link are enabled.
C7_HistoryNoDownload ==
    variant = "hist" =>
        /\ \A j \in JobIds : downloadsInFlight[j] = 0
        /\ lastEvent.kind # "download"
        /\ (lastEvent.kind = "poll" /\ lastEvent.resp.runtimeStatus = "Completed") =>
              /\ timers = {}
              /\ pollingInterval = NoTimer
              /\ progressDisplay = "none"
              /\ status = MsgCompletedLink
              /\ ~uploadBtnDisabled
              /\ historyLinkEnabled

\* The history-oriented page has handled a Completed response of the job it
\* was polling.
C7_Witness ==
    /\ variant = "hist"
    /\ lastEvent.kind = "poll"
    /\ lastEvent.resp.runtimeStatus = "Completed"
    /\ lastEvent.job = currentJobId
    /\ status = MsgCompletedLink

\* ---- C8
\* Handling a success response whose runtimeStatus is neither Completed nor
\* Failed changes nothing but the rendered snapshot: timers, pollingInterval,
\* currentJobId, the submit control, the history link, the progress container
\* and the status text are unchanged, no request is sent, and without a
\* customStatus the bar and its text are unchanged too.
C8_RunningStep ==
    (/\ lastEvent'.kind = "poll"
     /\ lastEvent'.resp.outcome = "ok"
     /\ lastEvent'.resp.runtimeStatus \notin {"Completed", "Failed"}) =>
        /\ UNCHANGED <<timers, pollingInterval, currentJobId, uploadBtnDisabled,
                       historyLinkEnabled, progressDisplay, status,
                       uploadsInFlight, textsInFlight, downloadsInFlight>>
        /\ statusInFlight' =
              [statusInFlight EXCEPT ![lastEvent'.job] = @ - 1]
        /\ lastEvent'.resp.customStatus = NoSnap =>
              UNCHANGED <<progressBarWidth, progressText>>

C8_RunningKeepsPolling == [][C8_RunningStep]_vars

\* A Running response (at progress 100) has been handled while the job's
\* timer is live: the loop goes on with the controls as they were.
C8_Witness ==
    /\ lastEvent.kind = "poll"
    /\ lastEvent.resp.runtimeStatus = "Running"
    /\ lastEvent.resp.customStatus.progress = 100
    /\ \E t \in timers : t.job = lastEvent.job
    /\ uploadBtnDisabled
    /\ progressDisplay = "block"

\* ---- C9
\* Fatal-policy variant: after a non-success status response or an exception
\* during the poll no timer is live, the progress container is hidden, the
\* server-error message is shown (with the HTTP status code for a non-success
\* response), the submit control and the history link are enabled.  A submitted
\* job that has no live timer never gets one again and no status request is
\* issued for it, so none is issued for the job after the error.
C9_FatalInv ==
    (/\ variant = "hist"
     /\ lastEvent.kind = "poll"
     /\ lastEvent.resp.outcome \in {"nonok", "throw"}) =>
        /\ timers = {}
        /\ pollingInterval = NoTimer
        /\ progressDisplay = "none"
        /\ status = IF lastEvent.resp.outcome = "nonok"
                    THEN <<"server-error", lastEvent.resp.code>>
                    ELSE MsgServerErrorThrown
        /\ ~uploadBtnDisabled
        /\ historyLinkEnabled

C9_NoFurtherGet ==
    variant = "hist" =>
        \A j \in 1..nextJob :
            (\A t \in timers : t.job # j) =>
                /\ \A t \in timers' : t.job # j
                /\ statusInFlight'[j] <= statusInFlight[j]

C9_PollErrorFatal == [](C9_FatalInv) /\ [][C9_NoFurtherGet]_vars

\* A non-success response of the polled job has been handled.
C9_Witness ==
    /\ variant = "hist"
    /\ lastEvent.kind = "poll"
    /\ lastEvent.resp.outcome = "nonok"
    /\ lastEvent.job = currentJobId
    /\ status = <<"server-error", 404>>

\* ---- C10
\* Silent-retry variant: a non-success status response or an exception of the
\* status fetch / JSON parse changes no client state: timers, pollingInterval,
\* currentJobId, the submit control, the progress container, the bar, its text
\* and the status text are unchanged and no request is sent; the live timer
\* stays, so the next tick polls the same job again.
C10_ErrorStep ==
    (/\ variant = "auto"
     /\ lastEvent'.kind = "poll"
     /\ lastEvent'.resp.outcome \in {"nonok", "throw"}) =>
        /\ UNCHANGED <<timerVars, uiVars, currentJobId, nextJob,
                       uploadsInFlight, textsInFlight, downloadsInFlight>>
        /\ statusInFlight' =
              [statusInFlight EXCEPT ![lastEvent'.job] = @ - 1]

C10_SilentRetry == [][C10_ErrorStep]_vars

\* An error response has been ignored while the job's timer is live.
C10_Witness ==
    /\ variant = "auto"
    /\ lastEvent.kind = "poll"
    /\ lastEvent.resp.outcome \in {"nonok", "throw"}
    /\ timers = {[h |-> pollingInterval, job |-> lastEvent.job]}
    /\ uploadBtnDisabled
    /\ progressDisplay = "block"

\* ---- C11
\* Whenever a failure has just been handled -- a validation error, a
\* submission error (non-success response, or an exception of the POST or of
\* reading its body), a polling error (non-success status response or
\* exception), a Failed job, or a download error -- the submit control is
\* enabled and the progress container is hidden.
C11_FailureHandled ==
    \/ lastEvent.kind \in {"invalid", "uploadErrorText", "uploadThrow",
                           "uploadTextThrow"}
    \/ /\ lastEvent.kind = "poll"
       /\ \/ lastEvent.resp.outcome \in {"nonok", "throw"}
          \/ lastEvent.resp.runtimeStatus = "Failed"
    \/ /\ lastEvent.kind = "download"
       /\ lastEvent.resp.outcome \in {"nonok", "throw", "unreadable"}

C11_FailureLeavesUsable ==
    C11_FailureHandled => (~uploadBtnDisabled /\ progressDisplay = "none")

\* ---- fair scheduling
\* The interval timer keeps firing while it is live, every request sent is
\* eventually answered, and the backend eventually answers a job's status
\* requests with a terminal success response.
TerminalResponses == {r \in OkResponses : isCompleted(r) \/ isFailed(r)}

Fairness ==
    /\ WF_vars(\E t \in timers : Tick(t))
    /\ WF_vars(UploadOk \/ UploadNonOk \/ UploadThrow)
    /\ WF_vars((\E body \in ErrorBodies : UploadErrorText(body))
               \/ UploadTextThrow)
    /\ WF_vars(\E j \in JobIds, r \in StatusResponses : PollResolve(j, r))
    /\ WF_vars(\E j \in JobIds, outcome \in DownloadOutcomes :
                   DownloadResolve(j, outcome))
    /\ \A j \in JobIds :
          SF_vars(\E r \in TerminalResponses : PollResolve(j, r))

SpecLive == Init /\ [][Next]_vars /\ Fairness

\* ---- C12
\* After a successful submission of job j, under fair scheduling, eventually
\* no timer of j is live and the submit control is enabled; and a live timer
\* is only ever removed by the step that handles a terminal response
\* (Completed, Failed) or a fatal error of the job it polls.
C12_LoopEnds ==
    \A j \in JobIds :
        (lastEvent.kind = "uploadOk" /\ lastEvent.job = j)
            ~> ((\A t \in timers : t.job # j) /\ ~uploadBtnDisabled)

C12_EndsThisJob(j) ==
    /\ lastEvent'.kind = "poll"
    /\ lastEvent'.job = j
    /\ \/ lastEvent'.resp.runtimeStatus \in {"Completed", "Failed"}
       \/ variant = "hist" /\ lastEvent'.resp.outcome \in {"nonok", "throw"}

C12_KeepsPolling ==
    \A t \in timers : t \notin timers' => C12_EndsThisJob(t.job)

C12_PolledUntilTerminal == C12_LoopEnds /\ [][C12_KeepsPolling]_vars

\* ---- C13
\* startPolling arms the timer of the job and sends the job's first status
\* request in the same step, before any tick.  As claimed: whenever the first
\* response handled for a job is terminal (Completed or Failed), that request
\* is the only one the job ever gets -- none other is in flight then, the
\* job's timer is gone, and no request is sent for the job afterwards.
C13_ArmsAndPolls ==
    lastEvent'.kind = "uploadOk" =>
        LET id == lastEvent'.job
        IN /\ timers' = {[h |-> pollingInterval', job |-> id]}
           /\ statusInFlight[id] = 0
           /\ statusInFlight'[id] = 1
           /\ ~answered'[id]

C13_FirstIsTerminal ==
    /\ lastEvent'.kind = "poll"
    /\ lastEvent'.first
    /\ lastEvent'.resp.runtimeStatus \in {"Completed", "Failed"}

C13_Finished(j) ==
    /\ statusInFlight'[j] = 0
    /\ \A t \in timers' : t.job # j

C13_NeverAgain ==
    \A j \in JobIds :
        (/\ answered[j]
         /\ statusInFlight[j] = 0
         /\ \A t \in timers : t.job # j) => C13_Finished(j)

C13_PolledOnceStep ==
    /\ C13_ArmsAndPolls
    /\ C13_FirstIsTerminal => C13_Finished(lastEvent'.job)
    /\ C13_NeverAgain

C13_PolledOnce == [][C13_PolledOnceStep]_vars

\* Amended: the same, for a first response that is handled before a tick has
\* sent a further request for the job.
C13_PolledOnceIfNoTickStep ==
    /\ C13_ArmsAndPolls
    /\ (C13_FirstIsTerminal /\ statusInFlight[lastEvent'.job] = 1)
          => C13_Finished(lastEvent'.job)
    /\ C13_NeverAgain

C13_PolledOnceIfNoTick == [][C13_PolledOnceIfNoTickStep]_vars

\* The first response of a job was terminal and no other request of the job
\* was sent: the loop is over after exactly one poll.
C13_Witness ==
    /\ lastEvent.kind = "poll"
    /\ lastEvent.first
    /\ lastEvent.resp.runtimeStatus \in {"Completed", "Failed"}
    /\ statusInFlight[lastEvent.job] = 0
    /\ timers = {}
    /\ lastEvent.job = currentJobId

\* ---- C14
\* A click that passes validation sends exactly one POST, to /upload in normal
\* mode and to /upload_diff otherwise, with the submit control disabled in the
\* state in which the request is sent; and the submit control is disabled
\* whenever a POST, or the reading of its error body, is still pending.
C14_ClickStep ==
    lastEvent'.kind = "click" =>
        /\ uploadsInFlight' = uploadsInFlight + 1
        /\ lastEvent'.endpoint =
              (IF lastEvent'.mode = "normal" THEN "/upload" ELSE "/upload_diff")
        /\ uploadBtnDisabled'
        /\ UNCHANGED <<textsInFlight, statusInFlight, downloadsInFlight>>

C14_DisabledWhilePosting ==
    (uploadsInFlight > 0 \/ textsInFlight > 0) => uploadBtnDisabled

C14_OnePostDisabled == [][C14_ClickStep]_vars /\ [](C14_DisabledWhilePosting)

\* ---- C15
\* A click whose selection misses a required slot sends no request and changes
\* nothing but the status text, which names the first missing slot in the
\* order design files (normal mode) or new-version files, old structured
\* document, old test specification (diff mode); the submit control stays
\* enabled.  A click that does send a request has every required slot filled.
C15_Missing(mode, sel) ==
    IF mode = "normal"
    THEN <<sel.files = 0>>
    ELSE <<sel.newExcelFiles = 0, sel.oldStructuredMd = 0,
           sel.oldTestSpecMd = 0>>

C15_SlotMessages(mode) ==
    IF mode = "normal"
    THEN <<MsgSelectDesign>>
    ELSE <<MsgSelectNew, MsgSelectOldStructured, MsgSelectOldTestSpec>>

C15_InvalidStep ==
    LET e == lastEvent'
        missing == C15_Missing(e.mode, e.sel)
    IN /\ e.kind = "invalid" =>
            /\ \E i \in DOMAIN missing :
                  /\ missing[i]
                  /\ \A k \in 1..(i - 1) : ~missing[k]
                  /\ status' = C15_SlotMessages(e.mode)[i]
            /\ ~uploadBtnDisabled /\ ~uploadBtnDisabled'
            /\ UNCHANGED <<netVars, timerVars, currentJobId, nextJob,
                           progressDisplay, progressBarWidth, progressText,
                           historyLinkEnabled>>
       /\ e.kind = "click" => \A i \in DOMAIN missing : ~missing[i]

C15_ValidationOnlyMessage == [][C15_InvalidStep]_vars

\* A diff-mode click with the new-version files present and both old
\* documents missing has been rejected with the old-structured message.
C15_Witness ==
    /\ lastEvent.kind = "invalid"
    /\ lastEvent.mode = "diff"
    /\ lastEvent.sel.newExcelFiles = 1
    /\ lastEvent.sel.oldStructuredMd = 0
    /\ lastEvent.sel.oldTestSpecMd = 0
    /\ status = MsgSelectOldStructured
    /\ ~uploadBtnDisabled

\* ---- C16
\* A non-success answer to the POST: the step that receives it hides the
\* progress container, and the step in which its body has been read shows
\* that body as the error text and enables the submit control; neither step
\* tracks a job -- timers, pollingInterval, currentJobId, the ids handed out
\* and the status requests in flight are unchanged.
C16_NoJobTracked ==
    UNCHANGED <<timerVars, currentJobId, nextJob, statusInFlight,
                downloadsInFlight, answered>>

C16_NonOkStep ==
    /\ lastEvent'.kind = "uploadNonOk" =>
          /\ progressDisplay' = "none"
          /\ C16_NoJobTracked
    /\ lastEvent'.kind = "uploadErrorText" =>
          /\ status' = <<"error-body", lastEvent'.resp.code>>
          /\ ~uploadBtnDisabled'
          /\ C16_NoJobTracked

C16_UploadRejected == [][C16_NonOkStep]_vars

\* The body of a rejected first submission is shown; no job was ever tracked.
C16_Witness ==
    /\ lastEvent.kind = "uploadErrorText"
    /\ status = <<"error-body", 2>>
    /\ progressDisplay = "none"
    /\ ~uploadBtnDisabled
    /\ currentJobId = NoJob
    /\ timers = {}

\* ---- C17
\* When the POST, the reading of its JSON body or the reading of its error
\* body throws, the catch block of the click handler runs: after that step no
\* timer is live and pollingInterval is null, the progress container is
\* hidden, the communication-error message is shown and the submit control
\* (and the history link) is enabled; no request is sent by the step.
C17_ThrowStep ==
    lastEvent'.kind \in {"uploadThrow", "uploadTextThrow"} =>
        /\ timers' = {}
        /\ pollingInterval' = NoTimer
        /\ progressDisplay' = "none"
        /\ status' = MsgCommError
        /\ ~uploadBtnDisabled'
        /\ variant = "hist" => historyLinkEnabled'
        /\ outstanding' = outstanding - 1
        /\ UNCHANGED <<currentJobId, nextJob, statusInFlight, downloadsInFlight>>

C17_UploadThrowCaught == [][C17_ThrowStep]_vars

\* The POST of a later submission threw while the timer of an earlier job was
\* live; the catch block cancelled that timer.
C17_Witness ==
    /\ lastEvent.kind = "uploadThrow"
    /\ lastEvent.armed
    /\ timers = {}
    /\ pollingInterval = NoTimer
    /\ status = MsgCommError

\* ---- C18
\* The id returned by a successful submission is fresh, becomes currentJobId
\* in the step that starts polling, and is the id of the timer armed and of
\* the immediate status request; every live timer polls currentJobId and each
\* tick sends its request for that id; a download request is sent only by the
\* step that handles a Completed response (auto-download variant), and for the
\* id that response belongs to.
C18_TimerPollsCurrent ==
    \A t \in timers : t.job = currentJobId /\ t.job \in 1..nextJob

C18_KeyStep ==
    LET e == lastEvent'
    IN /\ e.kind = "uploadOk" =>
            /\ e.job = nextJob + 1
            /\ currentJobId' = e.job
            /\ timers' = {[h |-> pollingInterval', job |-> e.job]}
            /\ statusInFlight' = [statusInFlight EXCEPT ![e.job] = @ + 1]
       /\ e.kind = "tick" =>
            statusInFlight' = [statusInFlight EXCEPT ![currentJobId] = @ + 1]
       /\ e.kind \notin {"uploadOk", "tick"} =>
            \A j \in JobIds : statusInFlight'[j] <= statusInFlight[j]
       /\ IF /\ variant = "auto"
             /\ e.kind = "poll"
             /\ e.resp.runtimeStatus = "Completed"
          THEN downloadsInFlight' =
                  [downloadsInFlight EXCEPT ![e.job] = @ + 1]
          ELSE \A j \in JobIds : downloadsInFlight'[j] <= downloadsInFlight[j]

C18_JobIdIsKey == [](C18_TimerPollsCurrent) /\ [][C18_KeyStep]_vars

\* The download of a completed job is in flight for the id the submission
\* returned.
C18_Witness ==
    /\ variant = "auto"
    /\ lastEvent.kind = "poll"
    /\ lastEvent.resp.runtimeStatus = "Completed"
    /\ lastEvent.job = currentJobId
    /\ downloadsInFlight = [j \in JobIds |-> IF j = currentJobId THEN 1 ELSE 0]

\* ---- C19
\* A confirmed delete whose request gets a non-success answer or throws
\* raises an alert and leaves the page as it was: allResults (entries and
\* order), currentPage, the table body and the pagination controls are
\* unchanged and renderPage is not called.
C19_FailStep ==
    histEvent'.kind = "deleteFail" =>
        /\ histEvent'.outcome \in {"nonok", "throw"}
        /\ histEvent'.alert
        /\ ~histEvent'.rendered
        /\ UNCHANGED <<allResults, currentPage, tbody, pagination>>

C19_FailedDeleteKeepsList == [][C19_FailStep]_vars

\* On page 2 of a paginated list the delete of the entry shown there failed;
\* the entry is still listed and shown.
C19_Witness ==
    /\ histEvent.kind = "deleteFail"
    /\ currentPage = 2
    /\ \E k \in DOMAIN allResults : allResults[k].instanceId = histEvent.id
    /\ tbody = Body("rows", <<histEvent.id>>)

\* ---- C20
\* A successful delete removes the entries of that id from allResults, sets
\* currentPage to the last page when it was beyond it, and renders that page;
\* in every state 1 <= currentPage <= max(1, number of pages), and once the
\* list is loaded the table shows exactly the entries of the current page,
\* which is not empty while the list is not empty.
C20_LastPage == IF allResults = <<>> THEN 1 ELSE totalPagesOf(allResults)

C20_ShownRows ==
    IF histKind \in {"seq", "plain"}
    THEN [k \in 1..(IF currentPage * ITEMS_PER_PAGE <= Len(allResults)
                    THEN ITEMS_PER_PAGE
                    ELSE Len(allResults) - (currentPage - 1) * ITEMS_PER_PAGE)
            |-> allResults[(currentPage - 1) * ITEMS_PER_PAGE + k].instanceId]
    ELSE [k \in 1..Len(allResults) |-> allResults[k].instanceId]

C20_PageInv ==
    /\ currentPage >= 1
    /\ currentPage <= C20_LastPage
    /\ allResults # <<>> =>
          /\ tbody.kind = "rows"
          /\ tbody.rows # <<>>
          /\ tbody.rows = C20_ShownRows

C20_DeleteStep ==
    histEvent'.kind = "deleteOk" =>
        /\ Len(allResults') =
              Cardinality({k \in DOMAIN allResults :
                              allResults[k].instanceId # histEvent'.id})
        /\ \A k \in DOMAIN allResults' : allResults'[k].instanceId # histEvent'.id
        /\ currentPage' =
              (IF currentPage > totalPagesOf(allResults') /\ allResults' # <<>>
               THEN totalPagesOf(allResults') ELSE currentPage)
        /\ histEvent'.rendered

C20_PageInRange == [](C20_PageInv) /\ [][C20_DeleteStep]_vars

\* The only entry of page 2 was deleted: currentPage went from 2 to 1 and the
\* five remaining entries are shown.
C20_Witness ==
    /\ histEvent.kind = "deleteOk"
    /\ histEvent.from = 2
    /\ currentPage = 1
    /\ Len(allResults) = ITEMS_PER_PAGE
    /\ Len(tbody.rows) = ITEMS_PER_PAGE

\* ---- C21
\* Whenever renderPage has run with an empty collection, the table body is
\* the single "no history" row and the pagination area has no control; in
\* particular the successful delete of the only remaining entry leaves
\* allResults empty and renders exactly that.
C21_EmptyRendered ==
    /\ tbody' = Body("empty", <<>>)
    /\ pagination' = <<>>

C21_EmptyStep ==
    /\ (histEvent'.rendered /\ allResults' = <<>>) => C21_EmptyRendered
    /\ (/\ histEvent'.kind = "deleteOk"
        /\ Len(allResults) = 1
        /\ allResults[1].instanceId = histEvent'.id) =>
           /\ allResults' = <<>>
           /\ histEvent'.rendered
           /\ C21_EmptyRendered

\* C21: an empty collection is always rendered as the single "no history"
\* row with no pagination control.
C21_EmptyShowsNoHistory == [][C21_EmptyStep]_vars

\* The last remaining entry has just been deleted.
C21_Witness ==
    /\ histEvent.kind = "deleteOk"
    /\ histEvent.removed = 1
    /\ allResults = <<>>
    /\ tbody = Body("empty", <<>>)
    /\ pagination = <<>>

\* ---- C22
\* A click on a row's delete button sends a DELETE only when the prompt is
\* confirmed.  Declined: no request is sent and allResults, currentPage, the
\* table body and the controls are unchanged.  Confirmed: exactly one DELETE
\* is sent, for the instanceId of the clicked row, and nothing else changes
\* until it is answered.
C22_ClickedId == tbody.rows[histEvent'.row]

C22_DeleteClickStep ==
    /\ histEvent'.kind = "deleteDeclined" =>
          UNCHANGED <<deletesInFlight, listInFlight, allResults, currentPage,
                      tbody, pagination>>
    /\ histEvent'.kind = "deleteSent" =>
          /\ histEvent'.id = C22_ClickedId
          /\ deletesInFlight' =
                [deletesInFlight EXCEPT ![C22_ClickedId] = @ + 1]
          /\ UNCHANGED <<listInFlight, allResults, currentPage, tbody, pagination>>
    /\ histEvent'.kind \notin {"deleteSent"} =>
          \A i \in EntryIds : deletesInFlight'[i] <= deletesInFlight[i]

\* C22: a DELETE is sent only by a confirmed click, once, for the clicked row.
C22_DeleteOnlyConfirmed == [][C22_DeleteClickStep]_vars

\* The delete of the entry in the second row of page 1 (not the entry whose
\* id is 2) has been confirmed and its request is in flight.
C22_Witness ==
    /\ histEvent.kind = "deleteSent"
    /\ histEvent.row = 2
    /\ histEvent.id # 2
    /\ tbody.rows[2] = histEvent.id
    /\ deletesInFlight[histEvent.id] = 1
    /\ histOutstanding = 1

\* ---- C23
\* instanceId is the only key between a history row and its actions: the
\* k-th rendered row shows the entry at that position of the current page,
\* the download and delete requests of a row carry that entry's instanceId,
\* and a successful delete of id X removes from allResults exactly the
\* entries whose instanceId is X, the others staying in the same order.
C23_Offset == IF isPaged(histKind) THEN (currentPage - 1) * ITEMS_PER_PAGE ELSE 0

C23_RowEntry(k) == allResults[C23_Offset + k]

C23_Others(list, x) == SelectSeq(list, LAMBDA e : e.instanceId # x)

C23_KeyStep ==
    /\ histEvent'.kind \in {"deleteSent", "downloadSent"} =>
          /\ histEvent'.row \in DOMAIN tbody.rows
          /\ C23_Offset + histEvent'.row \in DOMAIN allResults
          /\ histEvent'.id = C23_RowEntry(histEvent'.row).instanceId
    /\ histEvent'.kind = "deleteSent" =>
          deletesInFlight' =
             [deletesInFlight EXCEPT ![C23_RowEntry(histEvent'.row).instanceId] = @ + 1]
    /\ histEvent'.kind = "downloadSent" =>
          histDownloadsInFlight' = histDownloadsInFlight + 1
    /\ histEvent'.kind = "deleteOk" =>
          /\ allResults' = C23_Others(allResults, histEvent'.id)
          /\ \A i \in EntryIds \ {histEvent'.id} :
                (\E k \in DOMAIN allResults : allResults[k].instanceId = i)
                   <=> (\E k \in DOMAIN allResults' : allResults'[k].instanceId = i)
          /\ \A k \in DOMAIN allResults' : allResults'[k].instanceId # histEvent'.id

\* C23: row requests carry the row's instanceId and a successful delete
\* removes exactly the entries with that instanceId.
C23_InstanceIdIsKey == [][C23_KeyStep]_vars

\* Entry 6, shown first, was deleted while the download of another row was in
\* flight: the five other entries remain, newest first.
C23_Witness ==
    /\ histEvent.kind = "deleteOk"
    /\ histEvent.id = 6
    /\ histEvent.removed = 1
    /\ histDownloadsInFlight = 1
    /\ Len(allResults) = 5
    /\ \A k \in 1..5 : allResults[k].instanceId = 6 - k

\* ---- C24
\* For totalPages >= 2 and currentPage in 1..totalPages the control is PREV,
\* the page items, NEXT: PREV is disabled exactly on page 1 and NEXT exactly
\* on the last page; page i has a numbered button exactly when i is the first
\* page, the last page, currentPage or a neighbour of currentPage; and each
\* maximal run of omitted pages shows as exactly one ellipsis, in its place.
\* For totalPages <= 1 nothing is rendered.
C24_Shown(t, p) == {1, t, p - 1, p, p + 1} \cap (1..t)

C24_Item(i, t, p) ==
    IF i \in C24_Shown(t, p) THEN "NUM"
    ELSE IF i - 1 \in C24_Shown(t, p) THEN "ELLIPSIS" ELSE "NONE"

C24_Expected(t, p) ==
    SelectSeq([i \in 1..t |-> [kind |-> C24_Item(i, t, p), page |-> i]],
              LAMBDA x : x.kind # "NONE")

C24_Correct(t, p, r) ==
    IF t <= 1 THEN r = <<>>
    ELSE LET e == C24_Expected(t, p) IN
         /\ Len(r) = Len(e) + 2
         /\ r[1].kind = "PREV" /\ r[1].page = p - 1 /\ (r[1].disabled <=> p = 1)
         /\ r[Len(r)].kind = "NEXT" /\ r[Len(r)].page = p + 1
         /\ (r[Len(r)].disabled <=> p = t)
         /\ \A k \in 1..Len(e) :
               /\ r[k + 1].kind = e[k].kind
               /\ e[k].kind = "NUM" =>
                     /\ r[k + 1].page = e[k].page
                     /\ ~r[k + 1].disabled
                     /\ (r[k + 1].active <=> e[k].page = p)

\* C24: renderPagination returns the control described above.
C24_PaginationControl ==
    (fnCall.fn = "renderPagination" /\ fnResult.done) =>
       C24_Correct(fnCall.arg[1], fnCall.arg[2], fnResult.value)

\* Seven pages, page 4: PREV 1 ... 3 4 5 ... 7 NEXT, nothing disabled.
C24_Witness ==
    /\ fnCall = [fn |-> "renderPagination", arg |-> <<7, 4>>]
    /\ fnResult.done
    /\ [k \in 1..Len(fnResult.value) |-> fnResult.value[k].kind] =
          <<"PREV", "NUM", "ELLIPSIS", "NUM", "NUM", "NUM", "ELLIPSIS", "NUM", "NEXT">>
    /\ \A k \in 1..Len(fnResult.value) :
          fnResult.value[k].kind \in {"PREV", "NEXT"} => ~fnResult.value[k].disabled

\* ---- C25
\* A page change sets currentPage to the page of the clicked control and
\* re-renders the rows and the control from the collection in memory; it
\* sends no request and leaves allResults, entries and order, as it was.
C25_ChangePageStep ==
    histEvent'.kind = "changePage" =>
       /\ allResults' = allResults
       /\ UNCHANGED <<listInFlight, deletesInFlight, histDownloadsInFlight>>
       /\ \E k \in DOMAIN pagination :
             /\ ~pagination[k].disabled
             /\ currentPage' = pagination[k].page
       /\ tbody'.kind = "rows"
       /\ tbody'.rows =
             [k \in 1..Len(tbody'.rows) |->
                 allResults[(currentPage' - 1) * ITEMS_PER_PAGE + k].instanceId]
       /\ Len(tbody'.rows) =
             (IF currentPage' * ITEMS_PER_PAGE <= Len(allResults)
              THEN ITEMS_PER_PAGE
              ELSE Len(allResults) - (currentPage' - 1) * ITEMS_PER_PAGE)

\* C25: a page change sends nothing and leaves allResults unchanged.
C25_ChangePageLocal == [][C25_ChangePageStep]_vars

\* Page 2 of six entries was opened from page 1 while a delete was in
\* flight; the collection still holds all six and only the sixth is shown.
C25_Witness ==
    /\ histEvent.kind = "changePage"
    /\ histEvent.from = 1
    /\ currentPage = 2
    /\ Len(allResults) = 6
    /\ Len(tbody.rows) = 1
    /\ tbody.rows[1] = allResults[6].instanceId
    /\ histOutstanding = 1
    /\ ~listInFlight

\* ---- C26
\* After a successful list fetch the collection in memory is in descending
\* order of its recency key (seq_number, or start_time with a missing
\* start_time lowest) before it is first rendered, and it stays so, so that
\* the first row is the most recent entry and the rows of every page are in
\* non-increasing key order.
C26_Key(e) == IF histKind = "flat" THEN e.start_time ELSE e.seq_number

C26_NonIncreasing(list) ==
    \A k \in 1..(Len(list) - 1) : C26_Key(list[k]) >= C26_Key(list[k + 1])

\* C26: the collection is in descending key order whenever it is rendered.
C26_SortedDescending ==
    /\ C26_NonIncreasing(allResults)
    /\ tbody.kind = "rows" =>
          /\ \E first \in 1..Len(allResults) :
                tbody.rows = [k \in 1..Len(tbody.rows) |->
                                 allResults[first + k - 1].instanceId]
          /\ currentPage = 1 =>
                \A k \in 1..Len(allResults) :
                   C26_Key(allResults[1]) >= C26_Key(allResults[k])

\* The same for the two scripts whose loadHistory sorts.
C26_SortedWhereSorting == histKind \in {"seq", "flat"} => C26_SortedDescending

\* The script sorting by start_time has put the entry without one last.
C26_SortingWitness ==
    /\ histKind = "flat"
    /\ histEvent.kind = "loadOk"
    /\ Len(allResults) = 2
    /\ allResults[2].start_time = NoStartTime
    /\ allResults[1].instanceId = 1
    /\ tbody.rows = <<1, 2>>

\* ---- C27
\* downloadResult never lets an error reach its caller.  On a non-success
\* response it writes the download-failure message and returns without
\* creating an object URL; on an exception (fetch, blob read, header decode)
\* it writes the same message and returns; so the pollStatus awaiting it
\* always runs on: the progress display is hidden, the completed message is
\* written and the submit control is enabled.
C27_DownloadStep ==
    lastEvent'.kind = "download" =>
       /\ ~lastEvent'.dl.thrown
       /\ lastEvent'.resp.outcome = "nonok" =>
             /\ lastEvent'.dl.message = MsgDownloadFailed
             /\ lastEvent'.dl.created = 0
             /\ ~lastEvent'.dl.saved
       /\ lastEvent'.resp.outcome \in {"throw", "unreadable"} =>
             /\ lastEvent'.dl.message = MsgDownloadFailed
             /\ ~lastEvent'.dl.saved
       /\ lastEvent'.resp.outcome = "ok" => lastEvent'.dl.message = NoMsg
       /\ progressDisplay' = "none"
       /\ status' = MsgCompleted
       /\ ~uploadBtnDisabled'

\* C27: no error leaves downloadResult, and pollStatus runs on after it.
C27_DownloadNeverThrows == [][C27_DownloadStep]_vars

\* A download that threw has been handled: the caller went on to its end.
C27_Witness ==
    /\ lastEvent.kind = "download"
    /\ lastEvent.resp.outcome = "throw"
    /\ lastEvent.dl.message = MsgDownloadFailed
    /\ ~lastEvent.dl.thrown
    /\ progressDisplay = "none"
    /\ status = MsgCompleted
    /\ ~uploadBtnDisabled

\* ---- C28
\* The save filename is the percent-decoded value captured after
\* filename*=UTF-8'' in the Content-Disposition header (the header of
\* 仕様.zip yields 仕様.zip), and generated_files.zip when the header is
\* absent or does not contain that pattern.
C28_LiteralAt(h, i) ==
    /\ i + Len(FilenameStar) <= Len(h)
    /\ \A k \in 1..Len(FilenameStar) : h[i + k - 1] = FilenameStar[k]

C28_Matches(header) ==
    header.present /\ \E i \in 1..Len(header.text) : C28_LiteralAt(header.text, i)

C28_Captured(header) ==
    LET h == header.text
        lit == {i \in 1..Len(h) : C28_LiteralAt(h, i)}
        first == CHOOSE i \in lit : \A j \in lit : i <= j
    IN [k \in 1..(Len(h) - first - Len(FilenameStar) + 1) |->
           h[first + Len(FilenameStar) + k - 1]]

\* The UTF-8 encoding of a sequence of code points.
C28_Utf8One(cp) ==
    IF cp < 128 THEN <<cp>>
    ELSE IF cp < 2048 THEN <<192 + (cp \div 64), 128 + (cp % 64)>>
    ELSE IF cp < 65536
    THEN <<224 + (cp \div 4096), 128 + ((cp \div 64) % 64), 128 + (cp % 64)>>
    ELSE <<240 + (cp \div 262144), 128 + ((cp \div 4096) % 64),
           128 + ((cp \div 64) % 64), 128 + (cp % 64)>>

RECURSIVE C28_Utf8(_)
C28_Utf8(cps) ==
    IF cps = <<>> THEN <<>> ELSE C28_Utf8One(Head(cps)) \o C28_Utf8(Tail(cps))

C28_Scalar(cp) == cp \in 0..1114111 /\ cp \notin 55296..57343

\* Every "%" of s starts an escape, and the bytes s then spells.
C28_EscapesOk(s) ==
    \A i \in 1..Len(s) :
       s[i] = "%" => /\ i + 2 <= Len(s)
                     /\ hexValue(s[i + 1]) # NotHex
                     /\ hexValue(s[i + 2]) # NotHex

RECURSIVE C28_Bytes(_, _)
C28_Bytes(s, i) ==
    IF i > Len(s) THEN <<>>
    ELSE IF s[i] = "%"
    THEN <<16 * hexValue(s[i + 1]) + hexValue(s[i + 2])>> \o C28_Bytes(s, i + 3)
    ELSE <<charCode(s[i])>> \o C28_Bytes(s, i + 1)

\* The code point n bytes would carry, and whether the bytes from position i
\* on split into encodings of code points.
C28_Carried(seg) ==
    CASE Len(seg) = 1 -> seg[1]
      [] Len(seg) = 2 -> (seg[1] - 192) * 64 + (seg[2] - 128)
      [] Len(seg) = 3 -> (seg[1] - 224) * 4096 + (seg[2] - 128) * 64 + (seg[3] - 128)
      [] OTHER -> (seg[1] - 240) * 262144 + (seg[2] - 128) * 4096
                  + (seg[3] - 128) * 64 + (seg[4] - 128)

RECURSIVE C28_ValidFrom(_, _)
C28_ValidFrom(b, i) ==
    \/ i > Len(b)
    \/ \E n \in 1..4 :
          /\ i + n - 1 <= Len(b)
          /\ C28_Scalar(C28_Carried(SubSeq(b, i, i + n - 1)))
          /\ C28_Utf8One(C28_Carried(SubSeq(b, i, i + n - 1))) = SubSeq(b, i, i + n - 1)
          /\ C28_ValidFrom(b, i + n)

C28_WellFormed(s) == C28_EscapesOk(s) /\ C28_ValidFrom(C28_Bytes(s, 1), 1)

C28_Decodes(s, cps) ==
    /\ C28_EscapesOk(s)
    /\ \A k \in 1..Len(cps) : C28_Scalar(cps[k])
    /\ C28_Utf8(cps) = C28_Bytes(s, 1)

\* 仕様.zip (U+4ED5 U+69D8) and 仕樘.zip (U+4ED5 U+6A18).
C28_StatedName == <<20181, 27096, 46, 122, 105, 112>>
C28_OtherName == <<20181, 27160, 46, 122, 105, 112>>

C28_General ==
    /\ ~C28_Matches(fnCall.arg) =>
          ~fnResult.value.threw /\ fnResult.value.value = DefaultFilename
    /\ (C28_Matches(fnCall.arg) /\ C28_WellFormed(C28_Captured(fnCall.arg))) =>
          /\ ~fnResult.value.threw
          /\ C28_Decodes(C28_Captured(fnCall.arg), fnResult.value.value)

\* C28 as stated, with the header ...%E6%A8%98.zip yielding 仕様.zip.
C28_FilenameFromHeader ==
    (fnCall.fn = "filename" /\ fnResult.done) =>
       /\ C28_General
       /\ fnCall.arg = ExampleHeader =>
             ~fnResult.value.threw /\ fnResult.value.value = C28_StatedName

\* C28 amended: the header ...%E6%A8%98.zip yields 仕樘.zip, and it is
\* ...%E6%A7%98.zip that yields 仕様.zip; a captured text that is not a
\* well-formed percent-encoding makes decodeURIComponent throw, and no file
\* name results.
C28_FilenameOrDecodeError ==
    (fnCall.fn = "filename" /\ fnResult.done) =>
       /\ C28_General
       /\ (C28_Matches(fnCall.arg) /\ ~C28_WellFormed(C28_Captured(fnCall.arg))) =>
             fnResult.value.threw
       /\ fnCall.arg = ExampleHeader =>
             ~fnResult.value.threw /\ fnResult.value.value = C28_OtherName
       /\ fnCall.arg = SecondExampleHeader =>
             ~fnResult.value.threw /\ fnResult.value.value = C28_StatedName

\* The header ending in %E6%A8%98.zip has been parsed, into 仕樘.zip.
C28_Witness ==
    /\ fnCall = [fn |-> "filename", arg |-> ExampleHeader]
    /\ fnResult.done
    /\ ~fnResult.value.threw
    /\ fnResult.value.value = C28_OtherName

\* A header whose captured text is a lone "%" has been parsed.
C28_MalformedWitness ==
    /\ fnCall = [fn |-> "filename", arg |-> Header(Attachment \o FilenameStar \o <<"%">>)]
    /\ fnResult.done
    /\ fnResult.value.threw

\* ---- C29
\* formatSize returns "-" for 0, for undefined and for every other falsy
\* input; for a positive byte count it returns the size in mebibytes, rounded
\* to the nearest hundredth and written with exactly two decimals, followed
\* by " MB"; formatSize(1048576) is "1.00 MB".
C29_Digits == {Ascii[k] : k \in 17..26}

RECURSIVE C29_Number(_)
C29_Number(ds) ==
    IF ds = <<>> THEN 0
    ELSE 10 * C29_Number(SubSeq(ds, 1, Len(ds) - 1)) + (charCode(ds[Len(ds)]) - 48)

C29_TwoDecimalsMB(bytes, text) ==
    /\ Len(text) >= 7
    /\ SubSeq(text, Len(text) - 2, Len(text)) = <<" ", "M", "B">>
    /\ text[Len(text) - 5] = "."
    /\ \A k \in (1..(Len(text) - 6)) \cup {Len(text) - 4, Len(text) - 3} :
          text[k] \in C29_Digits
    /\ Len(text) > 7 => text[1] # "0"
    /\ LET hundredths ==
              100 * C29_Number(SubSeq(text, 1, Len(text) - 6))
              + C29_Number(SubSeq(text, Len(text) - 4, Len(text) - 3))
       IN /\ hundredths * 1048576 - bytes * 100 <= 524288
          /\ bytes * 100 - hundredths * 1048576 <= 524288

\* C29: formatSize returns "-" or the mebibytes with two decimals and " MB".
C29_FormatSize ==
    (fnCall.fn = "formatSize" /\ fnResult.done) =>
       /\ (fnCall.arg.type # "number" \/ fnCall.arg.n = 0) =>
             fnResult.value = <<"-">>
       /\ (fnCall.arg.type = "number" /\ fnCall.arg.n > 0) =>
             C29_TwoDecimalsMB(fnCall.arg.n, fnResult.value)
       /\ fnCall.arg = [type |-> "number", n |-> 1048576] =>
             fnResult.value = <<"1", ".", "0", "0", " ", "M", "B">>

\* 11 MiB and 1043334 bytes, 11.995 MiB when rounded to the thousandth, has
\* been formatted as "12.00 MB".
C29_Witness ==
    /\ fnCall = [fn |-> "formatSize",
                 arg |-> [type |-> "number", n |-> 11 * 1048576 + 1043334]]
    /\ fnResult.done
    /\ fnResult.value = <<"1", "2", ".", "0", "0", " ", "M", "B">>

\* ---- C30
\* updateProgress sets the bar width to progress percent, unclamped, and the
\* text to "<label> (<progress>%)", where label is the table entry when stage
\* is structuring, diff, perspectives, testspec or converting, and the raw
\* message for every other stage.
C30_Table ==
    [structuring |-> "label-structuring", diff |-> "label-diff",
     perspectives |-> "label-perspectives", testspec |-> "label-testspec",
     converting |-> "label-converting"]

C30_Rendered(data, out) ==
    /\ out.width = data.progress
    /\ out.text[2] = data.progress
    /\ out.text[1] = (IF data.stage \in DOMAIN C30_Table
                      THEN C30_Table[data.stage] ELSE data.message)

\* C30: updateProgress writes the unclamped width and the label or message.
C30_UpdateProgress ==
    (fnCall.fn = "updateProgress" /\ fnResult.done) =>
       C30_Rendered(fnCall.arg, fnResult.value)

\* The same for stages that do not name a member of Object.prototype.
C30_PlainStages ==
    (/\ fnCall.fn = "updateProgress" /\ fnResult.done
     /\ fnCall.arg.stage \notin {"constructor", "toString", "__proto__"}) =>
       C30_Rendered(fnCall.arg, fnResult.value)

\* A snapshot of an unlisted stage with progress 150 has been rendered with
\* its message and width 150.
C30_PlainWitness ==
    /\ fnCall = [fn |-> "updateProgress",
                 arg |-> [stage |-> "other", message |-> "m1", progress |-> 150]]
    /\ fnResult.done
    /\ fnResult.value = [width |-> 150, text |-> <<"m1", 150>>]

\* ---- C31
\* The submit control prevents double submission: whenever a submission POST
\* is in flight or an interval timer is live, the submit control is disabled
\* and at most one job is being submitted or tracked, late responses of
\* overlapping polls and downloads of an earlier job included.
C31_Busy == uploadsInFlight > 0 \/ timers # {}

C31_Tracked == uploadsInFlight + Cardinality(timers)

\* C31: a POST in flight or a live timer implies a disabled submit control and
\* at most one job submitted or tracked.
C31_NoDoubleSubmission ==
    C31_Busy => (uploadBtnDisabled /\ C31_Tracked <= 1)

\* ---- C32
\* In the auto-download page a job that completes is downloaded once: at most
\* one GET /download/{id} is issued per job, also when overlapping status polls
\* of the job each resolve with runtimeStatus Completed.  A job with at most
\* one download request issued never has two of them pending, and a Completed
\* response of a job whose download is pending issues no further one.
C32_CompletedStep ==
    \A j \in JobIds :
        (/\ lastEvent'.kind = "poll"
         /\ lastEvent'.job = j
         /\ downloadsInFlight[j] > 0) =>
            downloadsInFlight'[j] = downloadsInFlight[j]

C32_OnePending == \A j \in JobIds : downloadsInFlight[j] <= 1

\* C32: each job has at most one download request, overlapping Completed
\* responses included.
C32_DownloadedOnce == [][C32_CompletedStep]_vars /\ [](C32_OnePending)

\* ---- C33
\* In the auto-download page, when the job reached Completed and its download
\* failed (a non-success response or an exception), the status text left once
\* pollStatus has run to the end of its Completed branch is the
\* download-failure message.
C33_FailedDownloadStep ==
    (/\ lastEvent'.kind = "download"
     /\ lastEvent'.resp.outcome \in {"nonok", "throw", "unreadable"}) =>
        status' = MsgDownloadFailed

\* C33: a failed download leaves the download-failure message as status text.
C33_FailureMessageStays == [][C33_FailedDownloadStep]_vars

\* ---- C34
\* Concurrent deletes lose no update.  When the deletes of two distinct
\* entries are both in flight and both succeed, each response removes its own
\* entry from the collection as it is at that moment: the entry whose delete
\* is still pending stays until its own response, an entry once removed does
\* not come back, and no other entry is dropped.  So after both responses, in
\* either order, exactly the two entries are gone.
C34_Ids(list) == {list[k].instanceId : k \in DOMAIN list}

C34_DeleteStep ==
    /\ histEvent'.kind = "deleteOk" =>
          /\ C34_Ids(allResults') = C34_Ids(allResults) \ {histEvent'.id}
          /\ Len(allResults') = Cardinality(C34_Ids(allResults'))
          /\ \A k \in DOMAIN allResults' :
                \E m \in DOMAIN allResults : allResults'[k] = allResults[m]
    /\ histEvent'.kind # "loadOk" => C34_Ids(allResults') \subseteq C34_Ids(allResults)

\* C34: each successful delete removes its own entry from the current
\* collection and nothing else, whatever other deletes are in flight.
C34_ConcurrentDeletes == [][C34_DeleteStep]_vars

\* The delete of entry 5 succeeded while the delete of entry 6 was in flight:
\* entry 5 is gone, entry 6 and the four others are still listed.
C34_Witness ==
    /\ histEvent.kind = "deleteOk"
    /\ histEvent.id = 5
    /\ histEvent.removed = 1
    /\ deletesInFlight[6] = 1
    /\ C34_Ids(allResults) = {1, 2, 3, 4, 6}

\* Then the delete of entry 6 succeeded too: both are gone, the rest remains.
C34_BothGone ==
    /\ histEvent.kind = "deleteOk"
    /\ histEvent.id = 6
    /\ histEvent.removed = 1
    /\ \A i \in EntryIds : deletesInFlight[i] = 0
    /\ C34_Ids(allResults) = {1, 2, 3, 4}

\* ---- C35
\* Client-side pagination partitions the collection.  For a collection of n
\* entries and a page p in 1..ceil(n / ITEMS_PER_PAGE), renderPage shows the
\* entries at positions (p-1)*ITEMS_PER_PAGE .. p*ITEMS_PER_PAGE - 1 (counted
\* from 0, cut off at the end of the list) in list order; so a page shows
\* between 1 and ITEMS_PER_PAGE entries and every entry is on exactly one page.
C35_List == descending(fnCall.arg[1])

C35_Pages == 1..((fnCall.arg[1] + ITEMS_PER_PAGE - 1) \div ITEMS_PER_PAGE)

C35_First(p) == (p - 1) * ITEMS_PER_PAGE + 1

C35_Last(p) ==
    IF p * ITEMS_PER_PAGE < fnCall.arg[1] THEN p * ITEMS_PER_PAGE ELSE fnCall.arg[1]

C35_Shown(p) == renderBody(C35_List, p, "plain").rows

C35_PageCorrect(p, rows) ==
    /\ Len(rows) = C35_Last(p) - C35_First(p) + 1
    /\ Len(rows) \in 1..ITEMS_PER_PAGE
    /\ \A k \in 1..Len(rows) : rows[k] = C35_List[C35_First(p) + k - 1].instanceId

C35_OnOnePage(i) ==
    Cardinality({q \in C35_Pages :
                    \E k \in DOMAIN C35_Shown(q) : C35_Shown(q)[k] = i}) = 1

\* C35: the page rendered holds its slice of the list, and the pages of the
\* list together show every entry exactly once.
C35_PagesPartition ==
    (fnCall.fn = "renderPage" /\ fnResult.done /\ fnCall.arg[2] \in C35_Pages) =>
       /\ fnResult.value.kind = "rows"
       /\ C35_PageCorrect(fnCall.arg[2], fnResult.value.rows)
       /\ \A k \in DOMAIN C35_List : C35_OnOnePage(C35_List[k].instanceId)

\* Twelve entries, page 3: the last page shows the two oldest entries.
C35_Witness ==
    /\ fnCall = [fn |-> "renderPage", arg |-> <<12, 3>>]
    /\ fnResult.done
    /\ fnResult.value.rows = <<2, 1>>

\* ---- C36
\* When the list request of loadHistory fails -- a non-success response, a
\* network error or a body that cannot be parsed -- the error is caught
\* inside loadHistory: the error row is written to the table, allResults
\* stays the empty list, currentPage stays 1, no pagination control and no
\* row with actions is rendered, and no exception leaves the function.
C36_LoadFailStep ==
    histEvent'.kind = "loadFail" =>
       /\ histEvent'.outcome \in {"nonok", "throw", "unparsable"}
       /\ ~histEvent'.uncaught
       /\ tbody'.kind = "error"
       /\ tbody'.rows = <<>>
       /\ allResults' = <<>>
       /\ currentPage' = 1
       /\ pagination' = <<>>

C36_ErrorRowStays ==
    tbody.kind = "error" =>
       /\ tbody.rows = <<>>
       /\ allResults = <<>>
       /\ currentPage = 1
       /\ pagination = <<>>
       /\ \A i \in EntryIds : deletesInFlight[i] = 0
       /\ histDownloadsInFlight = 0

\* C36: a failed list request ends in the error row, with the collection
\* empty, page 1, no controls and no uncaught exception.
C36_LoadFailureCaught == [][C36_LoadFailStep]_vars /\ [](C36_ErrorRowStays)

\* The body of the list answer could not be parsed: the error row is shown.
C36_Witness ==
    /\ histEvent.kind = "loadFail"
    /\ histEvent.outcome = "unparsable"
    /\ ~histEvent.uncaught
    /\ tbody = Body("error", <<>>)
    /\ allResults = <<>>
    /\ ~listInFlight

\* ---- C37
\* A download creates an object URL only to save the blob and revokes it
\* before it returns.  A download whose success response is read and named
\* creates exactly one object URL, triggers the save with it and revokes it;
\* a download that fails before that -- a non-success response, a rejected
\* request, or a success response whose body cannot be read or whose file
\* name cannot be decoded -- creates no object URL and saves nothing.  In
\* every case as many URLs are revoked as were created and no error leaves
\* the function, so no object URL outlives the call that created it.
C37_IsDownload == fnCall.fn \in {"downloadResult", "download"} /\ fnResult.done

C37_SavedThroughOneUrl(run) ==
    run.created = 1 /\ run.saved /\ run.revoked = 1

C37_NoUrl(run) == run.created = 0 /\ run.revoked = 0 /\ ~run.saved

\* C37: one URL, created, used and revoked, when the answer is saved; none
\* when the download fails earlier; none left over in any case.
C37_UrlRevokedOrNone ==
    C37_IsDownload =>
       /\ fnResult.value.revoked = fnResult.value.created
       /\ ~fnResult.value.thrown
       /\ fnCall.arg = "ok" => C37_SavedThroughOneUrl(fnResult.value)
       /\ fnCall.arg # "ok" =>
             /\ C37_NoUrl(fnResult.value)
             /\ fnResult.value.message # NoMsg

\* C37 as stated: every download that receives a success response (read
\* or not) creates one object URL, saves with it and revokes it; a non-success
\* response creates none.
C37_EverySuccessResponseSaved ==
    C37_IsDownload =>
       /\ fnCall.arg \in {"ok", "unreadable"} =>
             C37_SavedThroughOneUrl(fnResult.value)
       /\ fnCall.arg = "nonok" => fnResult.value.created = 0
       /\ fnResult.value.revoked = fnResult.value.created

\* downloadResult saved a readable success response through one URL.
C37_Witness ==
    /\ fnCall = [fn |-> "downloadResult", arg |-> "ok"]
    /\ fnResult.done
    /\ C37_SavedThroughOneUrl(fnResult.value)
    /\ fnResult.value.message = NoMsg

\* The history page's download got a success response it could not read: the
\* alert is raised and no object URL was created.
C37_UnreadableWitness ==
    /\ fnCall = [fn |-> "download", arg |-> "unreadable"]
    /\ fnResult.done
    /\ C37_NoUrl(fnResult.value)
    /\ fnResult.value.message # NoMsg

====
